---- MODULE Spec2Model ----
(***************************************************************************)
(* go-tangra-warden: the authorization engine (internal/authz), the        *)
(* permission store (internal/data/permission_repo.go), the folder and     *)
(* secret catalog, the versioned KV adapter (pkg/vault/kv.go) and the      *)
(* Folder / Secret / Permission services that orchestrate them, and the    *)
(* vault client with its token renewal (pkg/vault/client.go).              *)
(*                                                                         *)
(* Conventions.  A Go string that the code parses or compares by content   *)
(* (user ids, role ids, folder names and paths) is a sequence of one-      *)
(* character strings.  uuid.New() is a counter (nextId): every value is    *)
(* fresh.  A nil pointer / empty id is NoId; an absent expires_at is       *)
(* NoExpiry.  A handler that runs alone is one atomic action; its outcome  *)
(* (the error kind, "" for success) is recorded in `last`.  Handlers that  *)
(* run concurrently advance one store access at a time (`inflight`).  A    *)
(* function that is studied on its own is applied to arguments held in     *)
(* `call`.                                                                 *)
(***************************************************************************)
EXTENDS Integers, Sequences, FiniteSets, TLC

VARIABLES
    folders,    \* warden_folders rows
    secrets,    \* warden_secrets rows
    versions,   \* warden_secret_versions rows
    perms,      \* warden_permissions rows
    kv,         \* Vault KV v2: vault path -> sequence of passwords (versions 1..Len)
    nextId,     \* the next value uuid.New() returns
    now,        \* time.Now()
    last,       \* the last handler that ran and what it returned
    inflight,   \* the requests in flight: worker -> how far its handler has come
    client,     \* pkg/vault Client: its token, its renewal goroutine, stopCh
    call        \* a function of the engine being applied: arguments, locals, result

vars == <<folders, secrets, versions, perms, kv, nextId, now, last, inflight, client, call>>

----------------------------------------------------------------------------
(* Bounds of the model *)

MaxIds == 4
MaxTime == 2
MaxKvVersions == 3

(* nil / "" *)
NoId == 0
NoExpiry == 0

----------------------------------------------------------------------------
(* internal/authz: relations, permissions, resource and subject types *)

RelationOwner == "RELATION_OWNER"
RelationEditor == "RELATION_EDITOR"
RelationViewer == "RELATION_VIEWER"
RelationSharer == "RELATION_SHARER"
Relations == {RelationOwner, RelationEditor, RelationViewer, RelationSharer}

PermissionRead == "PERMISSION_READ"
PermissionWrite == "PERMISSION_WRITE"
PermissionDelete == "PERMISSION_DELETE"
PermissionShare == "PERMISSION_SHARE"
Permissions == {PermissionRead, PermissionWrite, PermissionDelete, PermissionShare}

ResourceTypeFolder == "RESOURCE_TYPE_FOLDER"
ResourceTypeSecret == "RESOURCE_TYPE_SECRET"
ResourceTypes == {ResourceTypeFolder, ResourceTypeSecret}

SubjectTypeUser == "SUBJECT_TYPE_USER"
SubjectTypeRole == "SUBJECT_TYPE_ROLE"
SubjectTypeTenant == "SUBJECT_TYPE_TENANT"
SubjectTypes == {SubjectTypeUser, SubjectTypeRole, SubjectTypeTenant}

(* the subject id of the tenant-wide subject: "all" *)
TenantAll == <<"a", "l", "l">>

relationPermissions ==
    [r \in Relations |->
        CASE r = RelationOwner  -> <<PermissionRead, PermissionWrite, PermissionDelete, PermissionShare>>
          [] r = RelationEditor -> <<PermissionRead, PermissionWrite>>
          [] r = RelationViewer -> <<PermissionRead>>
          [] r = RelationSharer -> <<PermissionRead, PermissionShare>>]

RelationGrantsPermission(relation, permission) ==
    /\ relation \in DOMAIN relationPermissions
    /\ \E i \in 1..Len(relationPermissions[relation]) :
           relationPermissions[relation][i] = permission

----------------------------------------------------------------------------
(* internal/service/context_helper.go: the caller's identity *)

Digits == <<"0", "1", "2", "3", "4", "5", "6", "7", "8", "9">>

DigitValue(c) == CHOOSE d \in 0..9 : Digits[d + 1] = c

IsDigit(c) == \E d \in 0..9 : Digits[d + 1] = c

(* strconv.ParseUint(s, 10, 32) succeeds on a non-empty string of digits   *)
(* whose value is at most 4294967295: without its leading zeros it is      *)
(* shorter than MaxUint32, or as long and not after it digit by digit.     *)
MaxUint32 == <<"4", "2", "9", "4", "9", "6", "7", "2", "9", "5">>

RECURSIVE StripZeros(_)
StripZeros(s) ==
    IF s # <<>> /\ s[1] = "0" THEN StripZeros(SubSeq(s, 2, Len(s))) ELSE s

RECURSIVE DigitsLeq(_, _, _)
DigitsLeq(a, b, i) ==
    IF i > Len(a) THEN TRUE
    ELSE IF DigitValue(a[i]) < DigitValue(b[i]) THEN TRUE
    ELSE IF DigitValue(a[i]) > DigitValue(b[i]) THEN FALSE
    ELSE DigitsLeq(a, b, i + 1)

ParseUint32Ok(s) ==
    /\ s # <<>>
    /\ \A i \in 1..Len(s) : IsDigit(s[i])
    /\ \/ Len(StripZeros(s)) < Len(MaxUint32)
       \/ (Len(StripZeros(s)) = Len(MaxUint32) /\ DigitsLeq(StripZeros(s), MaxUint32, 1))

(* getUserIDAsUint32: nil (the empty set) for "", for a string that is not *)
(* a decimal number and for a number that does not fit 32 bits; else the   *)
(* number, kept as its digits.                                             *)
getUserIDAsUint32(userStr) ==
    IF userStr = <<>> THEN {}
    ELSE IF ~ParseUint32Ok(userStr) THEN {}
    ELSE {StripZeros(userStr)}

----------------------------------------------------------------------------
(* internal/data: lookups that the engine and the services use *)

(* FolderRepo.GetByID / SecretRepo.GetByID: by id only, no tenant filter;  *)
(* the set is empty (nil) or holds the one row.                            *)
FolderGetByID(id) == {f \in folders : f.id = id}

SecretGetByID(id) == {s \in secrets : s.id = id}

GetFolderParentID(folderID) ==
    IF FolderGetByID(folderID) = {} THEN NoId
    ELSE (CHOOSE f \in FolderGetByID(folderID) : TRUE).parent_id

(* a lookup that finds no folder for any secret *)
GetSecretFolderID_None(secretID) == NoId

GetSecretFolderID(secretID) ==
    IF SecretGetByID(secretID) = {} THEN NoId
    ELSE (CHOOSE s \in SecretGetByID(secretID) : TRUE).folder_id

(* PermissionRepo.HasPermission: the rows that match the five-column       *)
(* filter.  The query ends in First() with no ORDER BY, so when several    *)
(* rows match (the unique key also holds the relation) the row returned    *)
(* is any one of them.                                                     *)
HasPermission(tenantID, resourceType, resourceID, subjectType, subjectID) ==
    {t \in perms :
        /\ t.tenant_id = tenantID
        /\ t.resource_type = resourceType
        /\ t.resource_id = resourceID
        /\ t.subject_type = subjectType
        /\ t.subject_id = subjectID}

----------------------------------------------------------------------------
(* internal/authz/engine.go *)

CheckContext(tenantID, userID, resourceType, resourceID, permission) ==
    [TenantID |-> tenantID, UserID |-> userID, ResourceType |-> resourceType,
     ResourceID |-> resourceID, Permission |-> permission]

CheckResult(allowed, relation, reason) ==
    [Allowed |-> allowed, Relation |-> relation, Reason |-> reason]

(* an engine that ignores expires_at *)
Expired_Never(t) == FALSE

(* tuple.ExpiresAt != nil && tuple.ExpiresAt.Before(time.Now()) *)
Expired(t) == t.expires_at # NoExpiry /\ t.expires_at < now

(* what checkDirectPermission returns once HasPermission returned row t *)
DirectResultOf(t, permission) ==
    IF Expired(t) THEN CheckResult(FALSE, "", "permission expired")
    ELSE IF RelationGrantsPermission(t.relation, permission)
         THEN CheckResult(TRUE, t.relation, "direct permission")
         ELSE CheckResult(FALSE, "", "relation does not grant permission")

(* checkDirectPermission: the set of results it can return *)
checkDirectPermission(check, subjectType, subjectID) ==
    LET rows == HasPermission(check.TenantID, check.ResourceType, check.ResourceID,
                              subjectType, subjectID)
    IN  IF rows = {} THEN {CheckResult(FALSE, "", "no direct permission")}
        ELSE {DirectResultOf(t, check.Permission) : t \in rows}

(* `if result := first; result.Allowed { return result }` followed by rest *)
OrElse(first, rest) ==
    {r \in first : r.Allowed} \cup (IF \E r \in first : ~r.Allowed THEN rest ELSE {})

WithReason(results, reason) ==
    {IF r.Allowed THEN CheckResult(TRUE, r.Relation, reason) ELSE r : r \in results}

Denied(reason) == {CheckResult(FALSE, "", reason)}

(* the loop over roleIDs from index i on: the first allowed result returns *)
RECURSIVE checkRoles(_, _, _, _)
checkRoles(check, roleIDs, i, reason) ==
    IF i > Len(roleIDs) THEN Denied("no role permission")
    ELSE OrElse(WithReason(checkDirectPermission(check, SubjectTypeRole, roleIDs[i]), reason),
                checkRoles(check, roleIDs, i + 1, reason))

(* the `for parentFolderID != nil` loop of checkHierarchy *)
RECURSIVE hierarchyLoop(_, _, _, _)
hierarchyLoop(check, roleIDs, parentFolderID, visited) ==
    IF parentFolderID = NoId \/ parentFolderID \in visited
    THEN Denied("no inherited permission")
    ELSE LET folderCheck == CheckContext(check.TenantID, check.UserID, ResourceTypeFolder,
                                         parentFolderID, check.Permission)
         IN  OrElse(WithReason(checkDirectPermission(folderCheck, SubjectTypeUser, check.UserID),
                               "inherited from parent folder"),
             OrElse(checkRoles(folderCheck, roleIDs, 1, "inherited from parent folder via role"),
             OrElse(WithReason(checkDirectPermission(folderCheck, SubjectTypeTenant, TenantAll),
                               "inherited from parent folder via tenant"),
                    hierarchyLoop(check, roleIDs, GetFolderParentID(parentFolderID),
                                  visited \cup {parentFolderID}))))

checkHierarchy(check, roleIDs) ==
    LET start == IF check.ResourceType = ResourceTypeSecret
                     THEN GetSecretFolderID(check.ResourceID)
                 ELSE IF check.ResourceType = ResourceTypeFolder
                     THEN GetFolderParentID(check.ResourceID)
                 ELSE NoId
    IN  hierarchyLoop(check, roleIDs, start, {})

(* Engine.Check: the set of results it can return.  roleIDs is what        *)
(* GetUserRoleIDs returns: the roles of the request metadata.              *)
Check(check, roleIDs) ==
    OrElse(checkDirectPermission(check, SubjectTypeUser, check.UserID),
    OrElse(checkRoles(check, roleIDs, 1, "direct permission"),
    OrElse(checkDirectPermission(check, SubjectTypeTenant, TenantAll),
    OrElse(checkHierarchy(check, roleIDs),
           Denied("no permission found")))))

(* Checker.CheckPermission for a caller c = [tenant, user, roles] *)
CheckPermission(c, resourceType, resourceID, permission) ==
    Check(CheckContext(c.tenant, c.user, resourceType, resourceID, permission), c.roles)

MayAllow(c, resourceType, resourceID, permission) ==
    \E r \in CheckPermission(c, resourceType, resourceID, permission) : r.Allowed

MayDeny(c, resourceType, resourceID, permission) ==
    \E r \in CheckPermission(c, resourceType, resourceID, permission) : ~r.Allowed

----------------------------------------------------------------------------
(* What a handler returned.  err = "" is success.  id is the resource the  *)
(* handler created or addressed, ver the version it wrote or was asked     *)
(* for; folder and name are the request's; retry marks a CreateSecret      *)
(* that repeats the request of a CreateSecret that just failed on the KV   *)
(* put; password is the password written or read back, from the version    *)
(* number a restore was asked for.                                         *)
RetSecret(op, err, c, id, ver, folder, name, password, from, retry) ==
    [op |-> op, err |-> err, tenant |-> c.tenant, user |-> c.user, roles |-> c.roles,
     id |-> id, ver |-> ver, folder |-> folder, name |-> name, password |-> password,
     from |-> from, retry |-> retry]

Ret(op, err, c, id, ver, folder, name, retry) ==
    RetSecret(op, err, c, id, ver, folder, name, "", 0, retry)

Caller(tenant, user, roles) == [tenant |-> tenant, user |-> user, roles |-> roles]

NoCaller == Caller(0, <<>>, <<>>)

(* a handler that returns without having written anything *)
Fail(op, err, c, id) ==
    /\ last' = Ret(op, err, NoCaller, NoId, 0, NoId, <<>>, FALSE)
    /\ UNCHANGED <<inflight, client, call, folders, secrets, versions, perms, kv, nextId, now>>

(* the outcomes of `if err := s.checker.CanX(...); err != nil` *)
Decisions(c, resourceType, resourceID, permission) ==
    {r.Allowed : r \in CheckPermission(c, resourceType, resourceID, permission)}

----------------------------------------------------------------------------
(* internal/data/permission_repo.go *)

PermissionTuple(tenantID, resourceType, resourceID, relation, subjectType, subjectID, expiresAt) ==
    [tenant_id |-> tenantID, resource_type |-> resourceType, resource_id |-> resourceID,
     relation |-> relation, subject_type |-> subjectType, subject_id |-> subjectID,
     expires_at |-> expiresAt]

(* an index that also holds expires_at *)
SameKey_WithExpiry(t, u) == t = u

(* the unique index of Permission.Indexes *)
SameKey(t, u) ==
    /\ t.tenant_id = u.tenant_id
    /\ t.resource_type = u.resource_type
    /\ t.resource_id = u.resource_id
    /\ t.relation = u.relation
    /\ t.subject_type = u.subject_type
    /\ t.subject_id = u.subject_id

(* the field validators of the Permission schema: enum values, NotEmpty *)
PermissionValid(t) ==
    /\ t.resource_type \in ResourceTypes
    /\ t.relation \in Relations
    /\ t.subject_type \in SubjectTypes
    /\ t.resource_id # NoId
    /\ t.subject_id # <<>>

(* PermissionRepo.Create: "" on success, else the error kind *)
PermissionCreateErr(ps, t) ==
    IF ~PermissionValid(t) THEN "InternalServerError"
    ELSE IF \E u \in ps : SameKey(t, u) THEN "PermissionAlreadyExists"
    ELSE ""

PermissionCreate(ps, t) == IF PermissionCreateErr(ps, t) = "" THEN ps \cup {t} ELSE ps

(* PermissionRepo.DeleteByResource *)
DeleteByResource(ps, tenantID, resourceType, resourceID) ==
    {t \in ps : ~(/\ t.tenant_id = tenantID
                  /\ t.resource_type = resourceType
                  /\ t.resource_id = resourceID)}

(* PermissionRepo.DeletePermission; relation = "" is the nil relation *)
DeletePermission(ps, tenantID, resourceType, resourceID, relation, subjectType, subjectID) ==
    {t \in ps : ~(/\ t.tenant_id = tenantID
                  /\ t.resource_type = resourceType
                  /\ t.resource_id = resourceID
                  /\ t.subject_type = subjectType
                  /\ t.subject_id = subjectID
                  /\ (relation = "" \/ t.relation = relation))}

(* the OWNER grant of CreateSecret / CreateFolder: `if createdBy != nil` *)
OwnerGranted(c) == getUserIDAsUint32(c.user) # {}

GrantOwner(ps, c, resourceType, resourceID) ==
    IF OwnerGranted(c)
    THEN PermissionCreate(ps, PermissionTuple(c.tenant, resourceType, resourceID,
                                              RelationOwner, SubjectTypeUser, c.user, NoExpiry))
    ELSE ps

----------------------------------------------------------------------------
(* internal/service/permission_service.go *)

(* GrantAccess.  expiresAt is the request's expires_at; the handler passes *)
(* nil to the repository in its place.                                     *)
GrantedExpiry(expiresAt) == NoExpiry

ResourceExists(resourceType, resourceID) ==
    IF resourceType = ResourceTypeFolder THEN FolderGetByID(resourceID) # {}
    ELSE IF resourceType = ResourceTypeSecret THEN SecretGetByID(resourceID) # {}
    ELSE TRUE

(* a service that grants without asking for SHARE *)
GrantAllowed_Anyone(c, resourceType, resourceID) == {TRUE}

GrantAllowed(c, resourceType, resourceID) ==
    Decisions(c, resourceType, resourceID, PermissionShare)

GrantTenant(c, resourceType, resourceID) == c.tenant

GrantAccess(c, resourceType, resourceID, relation, subjectType, subjectID, expiresAt) ==
    \E allowed \in GrantAllowed(c, resourceType, resourceID) :
        LET t == PermissionTuple(GrantTenant(c, resourceType, resourceID), resourceType,
                                 resourceID, relation, subjectType, subjectID,
                                 GrantedExpiry(expiresAt))
        IN  IF ~allowed THEN Fail("GrantAccess", "AccessDenied", c, resourceID)
            ELSE IF ~ResourceExists(resourceType, resourceID)
                 THEN Fail("GrantAccess", "NotFound", c, resourceID)
            ELSE IF PermissionCreateErr(perms, t) # ""
                 THEN Fail("GrantAccess", PermissionCreateErr(perms, t), c, resourceID)
            ELSE /\ perms' = PermissionCreate(perms, t)
                 /\ last' = Ret("GrantAccess", "", NoCaller, NoId, 0, NoId, <<>>, FALSE)
                 /\ UNCHANGED <<inflight, client, call, folders, secrets, versions, kv, nextId, now>>

RevokeAccess(c, resourceType, resourceID, relation, subjectType, subjectID) ==
    \E allowed \in Decisions(c, resourceType, resourceID, PermissionShare) :
        IF ~allowed THEN Fail("RevokeAccess", "AccessDenied", c, resourceID)
        ELSE /\ perms' = DeletePermission(perms, c.tenant, resourceType, resourceID,
                                          relation, subjectType, subjectID)
             /\ last' = Ret("RevokeAccess", "", NoCaller, NoId, 0, NoId, <<>>, FALSE)
             /\ UNCHANGED <<inflight, client, call, folders, secrets, versions, kv, nextId, now>>

(* BackupService.importPermissions, one item of a tenant backup that has   *)
(* no row yet: the row is created in the caller's tenant with the item's   *)
(* fields, expires_at included; a failed insert is a warning.              *)
ImportPermission(c, resourceType, resourceID, relation, subjectType, subjectID, expiresAt) ==
    LET t == PermissionTuple(c.tenant, resourceType, resourceID, relation,
                             subjectType, subjectID, expiresAt)
    IN  /\ perms' = PermissionCreate(perms, t)
        /\ last' = Ret("ImportBackup", "", NoCaller, NoId, 0, NoId, <<>>, FALSE)
        /\ UNCHANGED <<inflight, client, call, folders, secrets, versions, kv, nextId, now>>

(* time passes *)
Tick ==
    /\ now < MaxTime
    /\ now' = now + 1
    /\ last' = Ret("Tick", "", NoCaller, NoId, 0, NoId, <<>>, FALSE)
    /\ UNCHANGED <<inflight, client, call, folders, secrets, versions, perms, kv, nextId>>

----------------------------------------------------------------------------
(* internal/data/audit_log_repo.go: FolderRepo.  The rows keep the unique  *)
(* indexes of the schema (a NULL parent_id never collides); rows refer to  *)
(* each other by id only.                                                  *)

Slash == <<"/">>

(* parent.Path + "/" + name, and "/" + name for a root *)
JoinPath(parentPath, name) == parentPath \o Slash \o name

(* a prefix test that never matches *)
HasPrefix_Never(s, prefix) == FALSE

(* strings.HasPrefix *)
HasPrefix(s, prefix) ==
    Len(prefix) <= Len(s) /\ SubSeq(s, 1, Len(prefix)) = prefix

(* strings.Replace(s, old, new, 1) for an s that begins with old *)
ReplacePrefix(s, old, new) == new \o SubSeq(s, Len(old) + 1, Len(s))

Folder(id, tenantID, parentID, name, path, depth) ==
    [id |-> id, tenant_id |-> tenantID, parent_id |-> parentID, name |-> name,
     path |-> path, depth |-> depth]

TheFolder(id) == CHOOSE f \in folders : f.id = id

(* Folder.Indexes: (tenant_id, parent_id, name) and (tenant_id, path) are  *)
(* unique; fs is the table without the row being written.                  *)
FolderConflict(fs, f) ==
    \E g \in fs :
        /\ g.tenant_id = f.tenant_id
        /\ \/ (f.parent_id # NoId /\ g.parent_id = f.parent_id /\ g.name = f.name)
           \/ g.path = f.path

(* FolderRepo.Create: the row it builds for the id uuid.New() returned *)
NewFolder(id, tenantID, parentID, name) ==
    IF parentID # NoId
    THEN Folder(id, tenantID, parentID, name,
                JoinPath(TheFolder(parentID).path, name), TheFolder(parentID).depth + 1)
    ELSE Folder(id, tenantID, NoId, name, JoinPath(<<>>, name), 0)

FolderCreateErr(tenantID, parentID, name) ==
    IF parentID # NoId /\ FolderGetByID(parentID) = {} THEN "FolderNotFound"
    ELSE IF name = <<>> THEN "InternalServerError"
    ELSE IF FolderConflict(folders, NewFolder(nextId, tenantID, parentID, name))
         THEN "FolderAlreadyExists"
    ELSE ""

(* FolderRepo.Update with a name: only the name column is written *)
RenamedFolder(f, name) == [f EXCEPT !.name = name]

(* FolderRepo.updateDescendantPaths: the rows of the tenant whose path     *)
(* begins with oldPathPrefix + "/" get the new prefix; path only.          *)
updateDescendantPaths(fs, tenantID, oldPathPrefix, newPathPrefix) ==
    {IF f.tenant_id = tenantID /\ HasPrefix(f.path, oldPathPrefix \o Slash)
         THEN [f EXCEPT !.path = ReplacePrefix(f.path, oldPathPrefix, newPathPrefix)]
         ELSE f : f \in fs}

(* FolderRepo.Move: the error it returns, "" when it moves the folder *)
FolderMoveErr(id, newParentID) ==
    IF FolderGetByID(id) = {} THEN "FolderNotFound"
    ELSE IF newParentID = NoId
         THEN (IF FolderConflict(folders \ {TheFolder(id)},
                     [TheFolder(id) EXCEPT !.parent_id = NoId,
                                            !.path = JoinPath(<<>>, TheFolder(id).name)])
               THEN "FolderAlreadyExists" ELSE "")
    ELSE IF newParentID = id THEN "CircularFolderReference"
    ELSE IF FolderGetByID(newParentID) = {} THEN "FolderNotFound"
    ELSE IF HasPrefix(TheFolder(newParentID).path, TheFolder(id).path \o Slash)
         THEN "CircularFolderReference"
    ELSE IF FolderConflict(folders \ {TheFolder(id)},
                [TheFolder(id) EXCEPT !.parent_id = newParentID,
                     !.path = JoinPath(TheFolder(newParentID).path, TheFolder(id).name)])
         THEN "FolderAlreadyExists"
    ELSE ""

(* FolderRepo.Move: the table after a move that returns no error *)
FolderMove(id, newParentID) ==
    LET f == TheFolder(id)
        newPath == IF newParentID # NoId
                   THEN JoinPath(TheFolder(newParentID).path, f.name)
                   ELSE JoinPath(<<>>, f.name)
        newDepth == IF newParentID # NoId THEN TheFolder(newParentID).depth + 1 ELSE 0
        moved == [f EXCEPT !.parent_id = newParentID, !.path = newPath, !.depth = newDepth]
    IN  updateDescendantPaths((folders \ {f}) \cup {moved}, f.tenant_id, f.path, newPath)

SecretStatusActive == "SECRET_STATUS_ACTIVE"
SecretStatusArchived == "SECRET_STATUS_ARCHIVED"
SecretStatusDeleted == "SECRET_STATUS_DELETED"

(* FolderRepo.Delete: the error it returns, "" when it deletes *)
FolderDeleteErr(id, force) ==
    IF ~force /\ (\E g \in folders : g.parent_id = id) THEN "FolderNotEmpty"
    ELSE IF ~force /\ (\E s \in secrets : s.folder_id = id /\ s.status # SecretStatusDeleted)
         THEN "FolderNotEmpty"
    ELSE IF FolderGetByID(id) = {} THEN "FolderNotFound"
    ELSE ""

(* FolderRepo.Delete: with force, every row whose path begins with the     *)
(* folder's path + "/" goes (the delete has no tenant predicate), then     *)
(* the row itself.                                                         *)
FolderDelete(id, force) ==
    LET f == TheFolder(id)
    IN  {g \in folders :
            /\ g.id # id
            /\ ~(force /\ HasPrefix(g.path, f.path \o Slash))}

----------------------------------------------------------------------------
(* FolderService (internal/service) *)

(* `if req.ParentId != nil && *req.ParentId != ""` then CanWriteFolder *)
DecisionsIfGiven(c, resourceType, resourceID, permission) ==
    IF resourceID # NoId THEN Decisions(c, resourceType, resourceID, permission) ELSE {TRUE}

CreateFolder(c, parentID, name) ==
    \E allowed \in DecisionsIfGiven(c, ResourceTypeFolder, parentID, PermissionWrite) :
        IF ~allowed THEN Fail("CreateFolder", "AccessDenied", c, parentID)
        ELSE IF FolderCreateErr(c.tenant, parentID, name) # ""
             THEN Fail("CreateFolder", FolderCreateErr(c.tenant, parentID, name), c, parentID)
        ELSE /\ nextId <= MaxIds
             /\ folders' = folders \cup {NewFolder(nextId, c.tenant, parentID, name)}
             /\ perms' = GrantOwner(perms, c, ResourceTypeFolder, nextId)
             /\ nextId' = nextId + 1
             /\ last' = Ret("CreateFolder", "", c, nextId, 0, parentID, <<>>, FALSE)
             /\ UNCHANGED <<inflight, client, call, secrets, versions, kv, now>>

UpdateFolder(c, id, name) ==
    \E allowed \in Decisions(c, ResourceTypeFolder, id, PermissionWrite) :
        IF ~allowed THEN Fail("UpdateFolder", "AccessDenied", c, id)
        ELSE IF FolderGetByID(id) = {} THEN Fail("UpdateFolder", "FolderNotFound", c, id)
        ELSE IF FolderConflict(folders \ {TheFolder(id)}, RenamedFolder(TheFolder(id), name))
             THEN Fail("UpdateFolder", "FolderAlreadyExists", c, id)
        ELSE /\ folders' = (folders \ {TheFolder(id)}) \cup {RenamedFolder(TheFolder(id), name)}
             /\ last' = Ret("UpdateFolder", "", c, id, 0, NoId, <<>>, FALSE)
             /\ UNCHANGED <<inflight, client, call, secrets, versions, perms, kv, nextId, now>>

MoveFolder(c, id, newParentID) ==
    \E allowed \in Decisions(c, ResourceTypeFolder, id, PermissionWrite),
       allowedDst \in DecisionsIfGiven(c, ResourceTypeFolder, newParentID, PermissionWrite) :
        IF ~allowed \/ ~allowedDst THEN Fail("MoveFolder", "AccessDenied", c, id)
        ELSE IF FolderMoveErr(id, newParentID) # ""
             THEN Fail("MoveFolder", FolderMoveErr(id, newParentID), c, id)
        ELSE /\ folders' = FolderMove(id, newParentID)
             /\ last' = Ret("MoveFolder", "", c, id, 0, newParentID, <<>>, FALSE)
             /\ UNCHANGED <<inflight, client, call, secrets, versions, perms, kv, nextId, now>>

DeleteFolder(c, id, force) ==
    \E allowed \in Decisions(c, ResourceTypeFolder, id, PermissionDelete) :
        IF ~allowed THEN Fail("DeleteFolder", "AccessDenied", c, id)
        ELSE IF FolderDeleteErr(id, force) # ""
             THEN Fail("DeleteFolder", FolderDeleteErr(id, force), c, id)
        ELSE /\ folders' = FolderDelete(id, force)
             /\ perms' = DeleteByResource(perms, c.tenant, ResourceTypeFolder, id)
             /\ last' = Ret("DeleteFolder", "", c, id, 0, NoId, <<>>, FALSE)
             /\ UNCHANGED <<inflight, client, call, secrets, versions, kv, nextId, now>>

----------------------------------------------------------------------------
(* pkg/vault/kv.go: KVStore over Vault KV v2.  kv maps each path that has  *)
(* metadata to the sequence of its versions; version n is element n.       *)

(* fmt.Sprintf("warden/%d/%s", tenantID, secretID) *)
BuildPath(tenantID, secretID) == <<"warden", tenantID, secretID>>

(* StorePassword: the store after a put that succeeds *)
StorePassword(k, path, password) ==
    IF path \in DOMAIN k THEN [k EXCEPT ![path] = Append(@, password)]
    ELSE k @@ (path :> <<password>>)

(* StorePassword: the version number the put returns *)
StoredVersion(k, path) == IF path \in DOMAIN k THEN Len(k[path]) + 1 ELSE 1

(* GetPassword: the set holding (password, version) of the latest version, *)
(* empty when the read fails                                               *)
GetPassword(k, path) ==
    IF path \in DOMAIN k
    THEN {[password |-> k[path][Len(k[path])], version |-> Len(k[path])]}
    ELSE {}

(* a read that returns the latest version whatever version is asked for *)
GetPasswordVersion_Latest(k, path, version) ==
    IF path \in DOMAIN k /\ version \in 1..Len(k[path]) THEN {k[path][Len(k[path])]} ELSE {}

(* GetPasswordVersion: the set holding the password, empty on failure *)
GetPasswordVersion(k, path, version) ==
    IF path \in DOMAIN k /\ version \in 1..Len(k[path]) THEN {k[path][version]} ELSE {}

(* DestroyAllVersions: DeleteMetadata removes the path *)
DestroyAllVersions(k, path) == [q \in DOMAIN k \ {path} |-> k[q]]

(* CalculateChecksum: hex of the SHA-256 of the password *)
CalculateChecksum(password) == <<"sha256", password>>

----------------------------------------------------------------------------
(* SecretRepo (unnamed/part_006) and SecretVersionRepo *)

Secret(id, tenantID, folderID, name, vaultPath, currentVersion, status) ==
    [id |-> id, tenant_id |-> tenantID, folder_id |-> folderID, name |-> name,
     vault_path |-> vaultPath, current_version |-> currentVersion, status |-> status]

TheSecret(id) == CHOOSE s \in secrets : s.id = id

(* Secret.Indexes: (tenant_id, folder_id, name) and vault_path are unique; *)
(* a NULL folder_id never collides.  ss is the table without the row.      *)
SecretConflict(ss, s) ==
    \E t \in ss :
        \/ (t.tenant_id = s.tenant_id /\ s.folder_id # NoId
                /\ t.folder_id = s.folder_id /\ t.name = s.name)
        \/ t.vault_path = s.vault_path

(* a row that starts at version 0 *)
NewSecret_VersionZero(id, tenantID, folderID, name, vaultPath) ==
    Secret(id, tenantID, folderID, name, vaultPath, 0, SecretStatusActive)

(* SecretRepo.Create: current_version 1, status ACTIVE *)
NewSecret(id, tenantID, folderID, name, vaultPath) ==
    Secret(id, tenantID, folderID, name, vaultPath, 1, SecretStatusActive)

SecretCreateErr(s) ==
    IF s.name = <<>> THEN "InternalServerError"
    ELSE IF SecretConflict(secrets, s) THEN "SecretAlreadyExists"
    ELSE ""

(* SecretRepo.Update: name and status are written when given *)
NoName == <<>>
NoStatus == ""
UpdatedSecret(s, name, status) ==
    [s EXCEPT !.name = IF name # NoName THEN name ELSE @,
              !.status = IF status # NoStatus THEN status ELSE @]

(* SecretRepo.UpdateVersion *)
UpdateVersion(ss, id, version) ==
    {IF s.id = id THEN [s EXCEPT !.current_version = version] ELSE s : s \in ss}

(* SecretRepo.Delete: the row goes, or its status becomes DELETED *)
SecretDelete(ss, id, permanent) ==
    IF permanent THEN {s \in ss : s.id # id}
    ELSE {IF s.id = id THEN [s EXCEPT !.status = SecretStatusDeleted] ELSE s : s \in ss}

SecretVersion(secretID, versionNumber, vaultPath, checksum) ==
    [secret_id |-> secretID, version_number |-> versionNumber,
     vault_path |-> vaultPath, checksum |-> checksum]

(* SecretVersion.Indexes: (secret_id, version_number) is unique and        *)
(* vault_path is unique.                                                   *)
VersionConflict(vs, v) ==
    \E w \in vs :
        \/ (w.secret_id = v.secret_id /\ w.version_number = v.version_number)
        \/ w.vault_path = v.vault_path

(* SecretVersionRepo.Create: a constraint error returns Conflict and no row *)
VersionCreate(vs, v) == IF VersionConflict(vs, v) THEN vs ELSE vs \cup {v}

(* SecretVersionRepo.GetBySecretAndVersion *)
GetBySecretAndVersion(secretID, versionNumber) ==
    {v \in versions : v.secret_id = secretID /\ v.version_number = versionNumber}

(* SecretVersionRepo.DeleteBySecretID *)
DeleteBySecretID(vs, secretID) == {v \in vs : v.secret_id # secretID}

----------------------------------------------------------------------------
(* SecretService (unnamed/part_001) *)

InitialPermission(relation, subjectType, subjectID) ==
    [Relation |-> relation, SubjectType |-> subjectType, SubjectId |-> subjectID]

(* CreateSecret's loop over req.InitialPermissions from element i on: an   *)
(* empty subject, an unspecified subject type and the creator as USER are  *)
(* skipped; a create that fails is logged.                                 *)
RECURSIVE grantInitialPermissions(_, _, _, _, _)
grantInitialPermissions(ps, c, secretID, initial, i) ==
    IF i > Len(initial) THEN ps
    ELSE LET perm == initial[i]
             skip == \/ perm.SubjectId = <<>>
                     \/ perm.SubjectType = ""
                     \/ (perm.SubjectType = SubjectTypeUser /\ perm.SubjectId = c.user)
             t == PermissionTuple(c.tenant, ResourceTypeSecret, secretID, perm.Relation,
                                  perm.SubjectType, perm.SubjectId, NoExpiry)
         IN  grantInitialPermissions(IF skip THEN ps ELSE PermissionCreate(ps, t),
                                     c, secretID, initial, i + 1)

(* the request repeats the one whose KV put has just failed *)
IsRetry(c, folderID, name, password) ==
    /\ last.op = "CreateSecret" /\ last.err = "VaultOperationError"
    /\ last.tenant = c.tenant /\ last.user = c.user
    /\ last.folder = folderID /\ last.name = name /\ last.password = password

(* secretID := generateUUID() names the vault path; SecretRepo.Create      *)
(* draws the row's id from uuid.New() on its own.                          *)
CreateSecret(c, folderID, name, password, initial, kvFail, cleanupFail) ==
    \E allowed \in DecisionsIfGiven(c, ResourceTypeFolder, folderID, PermissionWrite) :
        LET vaultPath == BuildPath(c.tenant, nextId)
            id == nextId + 1
            row == NewSecret(id, c.tenant, folderID, name, vaultPath)
        IN  IF ~allowed THEN Fail("CreateSecret", "AccessDenied", c, NoId)
            ELSE IF kvFail
                 THEN /\ last' = RetSecret("CreateSecret", "VaultOperationError", c, NoId, 0,
                                           folderID, name, password, 0, FALSE)
                      /\ UNCHANGED <<inflight, client, call, folders, secrets, versions, perms, kv, nextId, now>>
            ELSE IF SecretCreateErr(row) # ""
                 THEN /\ nextId <= MaxIds
                      /\ kv' = IF cleanupFail THEN StorePassword(kv, vaultPath, password) ELSE kv
                      /\ nextId' = IF cleanupFail THEN nextId + 1 ELSE nextId
                      /\ last' = RetSecret("CreateSecret", SecretCreateErr(row), c, NoId, 0,
                                           folderID, name, password, 0, FALSE)
                      /\ UNCHANGED <<inflight, client, call, folders, secrets, versions, perms, now>>
            ELSE /\ nextId + 1 <= MaxIds
                 /\ kv' = StorePassword(kv, vaultPath, password)
                 /\ secrets' = secrets \cup {row}
                 /\ versions' = VersionCreate(versions,
                        SecretVersion(id, 1, vaultPath, CalculateChecksum(password)))
                 /\ perms' = grantInitialPermissions(
                        GrantOwner(perms, c, ResourceTypeSecret, id), c, id, initial, 1)
                 /\ nextId' = nextId + 2
                 /\ last' = RetSecret("CreateSecret", "", c, id, 1, folderID, name, password, 0,
                                      IsRetry(c, folderID, name, password))
                 /\ UNCHANGED <<inflight, client, call, folders, now>>

(* GetSecretPassword: the responses the handler can give; version 0 asks   *)
(* for the current password.                                               *)
PasswordResponse(err, password, version) ==
    [err |-> err, password |-> password, version |-> version]

GetSecretPassword(c, id, version) ==
    {IF ~allowed THEN PasswordResponse("AccessDenied", "", 0)
     ELSE IF SecretGetByID(id) = {} THEN PasswordResponse("SecretNotFound", "", 0)
     ELSE IF version > 0
          THEN (IF GetBySecretAndVersion(id, version) = {}
                    THEN PasswordResponse("VersionNotFound", "", 0)
                ELSE IF GetPasswordVersion(kv, TheSecret(id).vault_path, version) = {}
                    THEN PasswordResponse("VaultOperationError", "", 0)
                ELSE PasswordResponse("",
                         CHOOSE p \in GetPasswordVersion(kv, TheSecret(id).vault_path, version) : TRUE,
                         version))
     ELSE IF GetPassword(kv, TheSecret(id).vault_path) = {}
          THEN PasswordResponse("VaultOperationError", "", 0)
     ELSE LET got == CHOOSE g \in GetPassword(kv, TheSecret(id).vault_path) : TRUE
          IN  PasswordResponse("", got.password, got.version)
     : allowed \in Decisions(c, ResourceTypeSecret, id, PermissionRead)}

UpdateSecret(c, id, name, status) ==
    \E allowed \in Decisions(c, ResourceTypeSecret, id, PermissionWrite) :
        IF ~allowed THEN Fail("UpdateSecret", "AccessDenied", c, id)
        ELSE IF SecretGetByID(id) = {} THEN Fail("UpdateSecret", "SecretNotFound", c, id)
        ELSE IF SecretConflict(secrets \ {TheSecret(id)},
                               UpdatedSecret(TheSecret(id), name, status))
             THEN Fail("UpdateSecret", "SecretAlreadyExists", c, id)
        ELSE /\ secrets' = (secrets \ {TheSecret(id)})
                               \cup {UpdatedSecret(TheSecret(id), name, status)}
             /\ last' = Ret("UpdateSecret", "", c, id, 0, NoId, name, FALSE)
             /\ UNCHANGED <<inflight, client, call, folders, versions, perms, kv, nextId, now>>

(* the version row's failure is logged; the row pointer moves regardless *)
UpdateSecretPassword(c, id, password, kvFail) ==
    \E allowed \in Decisions(c, ResourceTypeSecret, id, PermissionWrite) :
        IF ~allowed THEN Fail("UpdateSecretPassword", "AccessDenied", c, id)
        ELSE IF SecretGetByID(id) = {} THEN Fail("UpdateSecretPassword", "SecretNotFound", c, id)
        ELSE IF kvFail THEN Fail("UpdateSecretPassword", "VaultOperationError", c, id)
        ELSE LET secretEntity == TheSecret(id)
                 newVersion == StoredVersion(kv, secretEntity.vault_path)
             IN  /\ newVersion <= MaxKvVersions
                 /\ kv' = StorePassword(kv, secretEntity.vault_path, password)
                 /\ versions' = VersionCreate(versions,
                        SecretVersion(secretEntity.id, newVersion, secretEntity.vault_path,
                                      CalculateChecksum(password)))
                 /\ secrets' = UpdateVersion(secrets, id, newVersion)
                 /\ last' = RetSecret("UpdateSecretPassword", "", c, id, newVersion, NoId, <<>>,
                                      password, 0, FALSE)
                 /\ UNCHANGED <<inflight, client, call, folders, perms, nextId, now>>

RestoreVersion(c, id, versionNumber, kvFail) ==
    \E allowed \in Decisions(c, ResourceTypeSecret, id, PermissionWrite) :
        IF ~allowed THEN Fail("RestoreVersion", "AccessDenied", c, id)
        ELSE IF SecretGetByID(id) = {} THEN Fail("RestoreVersion", "SecretNotFound", c, id)
        ELSE IF GetBySecretAndVersion(id, versionNumber) = {}
             THEN Fail("RestoreVersion", "VersionNotFound", c, id)
        ELSE LET secretEntity == TheSecret(id)
                 versionEntity == CHOOSE v \in GetBySecretAndVersion(id, versionNumber) : TRUE
                 read == GetPasswordVersion(kv, versionEntity.vault_path, versionNumber)
                 password == CHOOSE p \in read : TRUE
                 newVersion == StoredVersion(kv, secretEntity.vault_path)
             IN  IF read = {} \/ kvFail
                     THEN Fail("RestoreVersion", "VaultOperationError", c, id)
                 ELSE /\ newVersion <= MaxKvVersions
                      /\ kv' = StorePassword(kv, secretEntity.vault_path, password)
                      /\ versions' = VersionCreate(versions,
                             SecretVersion(secretEntity.id, newVersion, secretEntity.vault_path,
                                           CalculateChecksum(password)))
                      /\ secrets' = UpdateVersion(secrets, id, newVersion)
                      /\ last' = RetSecret("RestoreVersion", "", c, id, newVersion, NoId, <<>>,
                                           password, versionNumber, FALSE)
                      /\ UNCHANGED <<inflight, client, call, folders, perms, nextId, now>>

(* with permanent, the vault destroy and the version delete are logged     *)
(* when they fail; the tuples of the caller's tenant go in either mode.    *)
DeleteSecret(c, id, permanent, kvFail) ==
    \E allowed \in Decisions(c, ResourceTypeSecret, id, PermissionDelete) :
        IF ~allowed THEN Fail("DeleteSecret", "AccessDenied", c, id)
        ELSE IF SecretGetByID(id) = {} THEN Fail("DeleteSecret", "SecretNotFound", c, id)
        ELSE /\ kv' = IF permanent /\ ~kvFail
                          THEN DestroyAllVersions(kv, TheSecret(id).vault_path) ELSE kv
             /\ versions' = IF permanent THEN DeleteBySecretID(versions, id) ELSE versions
             /\ secrets' = SecretDelete(secrets, id, permanent)
             /\ perms' = DeleteByResource(perms, c.tenant, ResourceTypeSecret, id)
             /\ last' = Ret(IF permanent THEN "DeleteSecretPermanent" ELSE "DeleteSecret",
                            "", c, id, 0, NoId, <<>>, FALSE)
             /\ UNCHANGED <<inflight, client, call, folders, nextId, now>>

MoveSecret(c, id, newFolderID) ==
    \E allowed \in Decisions(c, ResourceTypeSecret, id, PermissionWrite),
       allowedDst \in DecisionsIfGiven(c, ResourceTypeFolder, newFolderID, PermissionWrite) :
        IF ~allowed \/ ~allowedDst THEN Fail("MoveSecret", "AccessDenied", c, id)
        ELSE IF SecretGetByID(id) = {} THEN Fail("MoveSecret", "SecretNotFound", c, id)
        ELSE IF SecretConflict(secrets \ {TheSecret(id)},
                               [TheSecret(id) EXCEPT !.folder_id = newFolderID])
             THEN Fail("MoveSecret", "SecretAlreadyExists", c, id)
        ELSE /\ secrets' = (secrets \ {TheSecret(id)})
                               \cup {[TheSecret(id) EXCEPT !.folder_id = newFolderID]}
             /\ last' = Ret("MoveSecret", "", c, id, 0, newFolderID, <<>>, FALSE)
             /\ UNCHANGED <<inflight, client, call, folders, versions, perms, kv, nextId, now>>

----------------------------------------------------------------------------
(* Handlers in flight.  The server runs every request on a goroutine of    *)
(* its own and no handler opens a transaction, so two requests interleave  *)
(* between any two statements that reach the database or the vault.  A     *)
(* worker runs one request: its handler advances one store access at a     *)
(* time and keeps what it has read in its record; the response is the      *)
(* record's err once pc is "done".                                         *)

Workers == {1, 2}

NoFolder == Folder(NoId, 0, NoId, <<>>, <<>>, 0)

NoTuple == PermissionTuple(0, "", NoId, "", "", <<>>, NoExpiry)

IdleRequest ==
    [pc |-> "idle", op |-> "", c |-> NoCaller, id |-> NoId, folder |-> NoId,
     name |-> <<>>, password |-> "", path |-> <<>>, ver |-> 0, err |-> "",
     cleaned |-> FALSE, f |-> NoFolder, parent |-> NoFolder, tuple |-> NoTuple]

At(w, op, pc) == inflight[w].op = op /\ inflight[w].pc = pc

Returned(w, op) == At(w, op, "done")

(* CreateSecret, up to the catalog insert: the folder check and            *)
(* secretID := generateUUID()                                              *)
CreateSecretBegin(w, c, folderID, name, password) ==
    /\ inflight[w].pc = "idle"
    /\ \E allowed \in DecisionsIfGiven(c, ResourceTypeFolder, folderID, PermissionWrite) :
           IF ~allowed
           THEN /\ inflight' = [inflight EXCEPT ![w].op = "CreateSecret", ![w].c = c,
                                    ![w].folder = folderID, ![w].name = name,
                                    ![w].password = password,
                                    ![w].pc = "done", ![w].err = "AccessDenied"]
                /\ UNCHANGED nextId
           ELSE /\ nextId <= MaxIds
                /\ inflight' = [inflight EXCEPT ![w].op = "CreateSecret", ![w].c = c,
                                    ![w].folder = folderID, ![w].name = name,
                                    ![w].password = password,
                                    ![w].path = BuildPath(c.tenant, nextId),
                                    ![w].pc = "put"]
                /\ nextId' = nextId + 1
    /\ UNCHANGED <<folders, secrets, versions, perms, kv, now, last, client, call>>

(* s.kvStore.StorePassword(ctx, vaultPath, req.Password, nil) *)
CreateSecretPut(w, kvFail) ==
    /\ At(w, "CreateSecret", "put")
    /\ IF kvFail
       THEN /\ inflight' = [inflight EXCEPT ![w].pc = "done", ![w].err = "VaultOperationError"]
            /\ UNCHANGED kv
       ELSE /\ kv' = StorePassword(kv, inflight[w].path, inflight[w].password)
            /\ inflight' = [inflight EXCEPT ![w].pc = "insert"]
    /\ UNCHANGED <<folders, secrets, versions, perms, nextId, now, last, client, call>>

(* s.secretRepo.Create: one INSERT; a constraint error sends the handler   *)
(* to its clean-up with the error it will return                          *)
CreateSecretInsert(w) ==
    /\ At(w, "CreateSecret", "insert")
    /\ LET r == inflight[w]
           row == NewSecret(nextId, r.c.tenant, r.folder, r.name, r.path)
       IN  IF SecretCreateErr(row) # ""
           THEN /\ inflight' = [inflight EXCEPT ![w].pc = "cleanup",
                                                ![w].err = SecretCreateErr(row)]
                /\ UNCHANGED <<secrets, nextId>>
           ELSE /\ nextId <= MaxIds
                /\ secrets' = secrets \cup {row}
                /\ nextId' = nextId + 1
                /\ inflight' = [inflight EXCEPT ![w].pc = "version", ![w].id = nextId]
    /\ UNCHANGED <<folders, versions, perms, kv, now, last, client, call>>

(* s.kvStore.DestroyAllVersions(ctx, vaultPath); its failure is logged *)
CreateSecretCleanup(w, cleanupFail) ==
    /\ At(w, "CreateSecret", "cleanup")
    /\ kv' = IF cleanupFail THEN kv ELSE DestroyAllVersions(kv, inflight[w].path)
    /\ inflight' = [inflight EXCEPT ![w].pc = "done", ![w].cleaned = ~cleanupFail]
    /\ UNCHANGED <<folders, secrets, versions, perms, nextId, now, last, client, call>>

(* s.versionRepo.Create(ctx, secretEntity.ID, 1, vaultPath, ...) *)
CreateSecretVersion(w) ==
    /\ At(w, "CreateSecret", "version")
    /\ versions' = VersionCreate(versions,
           SecretVersion(inflight[w].id, 1, inflight[w].path,
                         CalculateChecksum(inflight[w].password)))
    /\ inflight' = [inflight EXCEPT ![w].pc = "owner"]
    /\ UNCHANGED <<folders, secrets, perms, kv, nextId, now, last, client, call>>

(* the OWNER grant, then the response; the request carries no initial      *)
(* permissions                                                             *)
CreateSecretOwner(w) ==
    /\ At(w, "CreateSecret", "owner")
    /\ perms' = GrantOwner(perms, inflight[w].c, ResourceTypeSecret, inflight[w].id)
    /\ inflight' = [inflight EXCEPT ![w].pc = "done", ![w].ver = 1]
    /\ UNCHANGED <<folders, secrets, versions, kv, nextId, now, last, client, call>>

(* UpdateSecretPassword, up to the put: CanWriteSecret and                 *)
(* secretRepo.GetByID; the handler keeps the row's id and vault_path       *)
UpdateSecretPasswordBegin(w, c, id, password) ==
    /\ inflight[w].pc = "idle"
    /\ \E allowed \in Decisions(c, ResourceTypeSecret, id, PermissionWrite) :
           inflight' = [inflight EXCEPT
               ![w].op = "UpdateSecretPassword", ![w].c = c, ![w].id = id,
               ![w].password = password,
               ![w].path = IF allowed /\ SecretGetByID(id) # {}
                               THEN TheSecret(id).vault_path ELSE <<>>,
               ![w].pc = IF allowed /\ SecretGetByID(id) # {} THEN "put" ELSE "done",
               ![w].err = IF ~allowed THEN "AccessDenied"
                          ELSE IF SecretGetByID(id) = {} THEN "SecretNotFound" ELSE ""]
    /\ UNCHANGED <<folders, secrets, versions, perms, kv, nextId, now, last, client, call>>

(* newVersion, err := s.kvStore.StorePassword(...) *)
UpdateSecretPasswordPut(w, kvFail) ==
    /\ At(w, "UpdateSecretPassword", "put")
    /\ IF kvFail
       THEN /\ inflight' = [inflight EXCEPT ![w].pc = "done", ![w].err = "VaultOperationError"]
            /\ UNCHANGED kv
       ELSE /\ StoredVersion(kv, inflight[w].path) <= MaxKvVersions
            /\ kv' = StorePassword(kv, inflight[w].path, inflight[w].password)
            /\ inflight' = [inflight EXCEPT ![w].pc = "version",
                                            ![w].ver = StoredVersion(kv, inflight[w].path)]
    /\ UNCHANGED <<folders, secrets, versions, perms, nextId, now, last, client, call>>

(* s.versionRepo.Create(ctx, secretEntity.ID, int32(newVersion), ...); its *)
(* failure is logged                                                       *)
UpdateSecretPasswordVersion(w) ==
    /\ At(w, "UpdateSecretPassword", "version")
    /\ versions' = VersionCreate(versions,
           SecretVersion(inflight[w].id, inflight[w].ver, inflight[w].path,
                         CalculateChecksum(inflight[w].password)))
    /\ inflight' = [inflight EXCEPT ![w].pc = "advance"]
    /\ UNCHANGED <<folders, secrets, perms, kv, nextId, now, last, client, call>>

(* s.secretRepo.UpdateVersion(ctx, req.Id, int32(newVersion), createdBy):  *)
(* UpdateOneID, NotFound when the row has gone                             *)
UpdateSecretPasswordAdvance(w) ==
    /\ At(w, "UpdateSecretPassword", "advance")
    /\ secrets' = UpdateVersion(secrets, inflight[w].id, inflight[w].ver)
    /\ inflight' = [inflight EXCEPT ![w].pc = "done",
                        ![w].err = IF SecretGetByID(inflight[w].id) = {}
                                       THEN "SecretNotFound" ELSE ""]
    /\ UNCHANGED <<folders, versions, perms, kv, nextId, now, last, client, call>>

(* GrantAccess, up to the insert: RequirePermission(SHARE), the look-up of *)
(* the resource, and the tuple the handler will hand to the repository     *)
GrantAccessBegin(w, c, resourceType, resourceID, relation, subjectType, subjectID, expiresAt) ==
    /\ inflight[w].pc = "idle"
    /\ \E allowed \in GrantAllowed(c, resourceType, resourceID) :
           inflight' = [inflight EXCEPT
               ![w].op = "GrantAccess", ![w].c = c, ![w].id = resourceID,
               ![w].tuple = PermissionTuple(GrantTenant(c, resourceType, resourceID),
                                resourceType, resourceID, relation, subjectType, subjectID,
                                GrantedExpiry(expiresAt)),
               ![w].pc = IF allowed /\ ResourceExists(resourceType, resourceID)
                             THEN "create" ELSE "done",
               ![w].err = IF ~allowed THEN "AccessDenied"
                          ELSE IF ~ResourceExists(resourceType, resourceID) THEN "NotFound"
                          ELSE ""]
    /\ UNCHANGED <<folders, secrets, versions, perms, kv, nextId, now, last, client, call>>

(* s.permRepo.Create: one INSERT, then the response *)
GrantAccessCreate(w) ==
    /\ At(w, "GrantAccess", "create")
    /\ perms' = PermissionCreate(perms, inflight[w].tuple)
    /\ inflight' = [inflight EXCEPT ![w].pc = "done",
                        ![w].err = PermissionCreateErr(perms, inflight[w].tuple)]
    /\ UNCHANGED <<folders, secrets, versions, kv, nextId, now, last, client, call>>

(* MoveFolder, up to the update: the two CanWriteFolder checks of the      *)
(* service and, in FolderRepo.Move, GetByID of the folder and of the new   *)
(* parent with the tests made on the rows read                             *)
MoveFolderBegin(w, c, id, newParentID) ==
    /\ inflight[w].pc = "idle"
    /\ \E allowed \in Decisions(c, ResourceTypeFolder, id, PermissionWrite),
          allowedDst \in DecisionsIfGiven(c, ResourceTypeFolder, newParentID, PermissionWrite) :
           LET err == IF ~allowed \/ ~allowedDst THEN "AccessDenied"
                      ELSE IF FolderGetByID(id) = {} THEN "FolderNotFound"
                      ELSE IF newParentID = NoId THEN ""
                      ELSE IF newParentID = id THEN "CircularFolderReference"
                      ELSE IF FolderGetByID(newParentID) = {} THEN "FolderNotFound"
                      ELSE IF HasPrefix(TheFolder(newParentID).path, TheFolder(id).path \o Slash)
                           THEN "CircularFolderReference"
                      ELSE ""
           IN  inflight' = [inflight EXCEPT
                   ![w].op = "MoveFolder", ![w].c = c, ![w].id = id, ![w].folder = newParentID,
                   ![w].f = IF err = "" THEN TheFolder(id) ELSE NoFolder,
                   ![w].parent = IF err = "" /\ newParentID # NoId
                                     THEN TheFolder(newParentID) ELSE NoFolder,
                   ![w].pc = IF err = "" THEN "save" ELSE "done",
                   ![w].err = err]
    /\ UNCHANGED <<folders, secrets, versions, perms, kv, nextId, now, last, client, call>>

(* FolderRepo.Move from `builder := ...UpdateOneID(id)` on: the row gets   *)
(* the parent, path and depth computed from the rows read before, then     *)
(* updateDescendantPaths runs with the old path read before                *)
MoveFolderSave(w) ==
    /\ At(w, "MoveFolder", "save")
    /\ LET r == inflight[w]
           newPath == IF r.folder # NoId THEN JoinPath(r.parent.path, r.f.name)
                      ELSE JoinPath(<<>>, r.f.name)
           newDepth == IF r.folder # NoId THEN r.parent.depth + 1 ELSE 0
           moved == [TheFolder(r.id) EXCEPT !.parent_id = r.folder, !.path = newPath,
                                            !.depth = newDepth]
       IN  IF FolderGetByID(r.id) = {}
           THEN /\ inflight' = [inflight EXCEPT ![w].pc = "done",
                                                ![w].err = "InternalServerError"]
                /\ UNCHANGED folders
           ELSE IF FolderConflict(folders \ {TheFolder(r.id)}, moved)
           THEN /\ inflight' = [inflight EXCEPT ![w].pc = "done",
                                                ![w].err = "FolderAlreadyExists"]
                /\ UNCHANGED folders
           ELSE /\ folders' = updateDescendantPaths((folders \ {TheFolder(r.id)}) \cup {moved},
                                                    r.f.tenant_id, r.f.path, newPath)
                /\ inflight' = [inflight EXCEPT ![w].pc = "done"]
    /\ UNCHANGED <<secrets, versions, perms, kv, nextId, now, last, client, call>>

(* DeleteSecret, up to the first delete: CanDeleteSecret and               *)
(* secretRepo.GetByID; the handler keeps the row's vault_path.  The op of  *)
(* a request with req.Permanent is "DeleteSecretPermanent".                *)
DeleteSecretBegin(w, c, id, permanent) ==
    /\ inflight[w].pc = "idle"
    /\ LET op == IF permanent THEN "DeleteSecretPermanent" ELSE "DeleteSecret"
       IN  \E allowed \in Decisions(c, ResourceTypeSecret, id, PermissionDelete) :
               inflight' = [inflight EXCEPT ![w] =
                   [@ EXCEPT !.op = op, !.c = c, !.id = id,
                             !.pc = IF ~allowed \/ SecretGetByID(id) = {} THEN "done"
                                    ELSE IF permanent THEN "destroy" ELSE "row",
                             !.err = IF ~allowed THEN "AccessDenied"
                                     ELSE IF SecretGetByID(id) = {} THEN "SecretNotFound"
                                     ELSE "",
                             !.path = IF allowed /\ SecretGetByID(id) # {}
                                          THEN TheSecret(id).vault_path ELSE <<>>]]
    /\ UNCHANGED <<folders, secrets, versions, perms, kv, nextId, now, last, client, call>>

(* s.kvStore.DestroyAllVersions(ctx, secretEntity.VaultPath); its failure  *)
(* is logged                                                               *)
DeleteSecretDestroy(w, kvFail) ==
    /\ At(w, "DeleteSecretPermanent", "destroy")
    /\ kv' = IF kvFail THEN kv ELSE DestroyAllVersions(kv, inflight[w].path)
    /\ inflight' = [inflight EXCEPT ![w].pc = "versions"]
    /\ UNCHANGED <<folders, secrets, versions, perms, nextId, now, last, client, call>>

(* s.versionRepo.DeleteBySecretID(ctx, req.Id); its failure is logged *)
DeleteSecretVersions(w, dbFail) ==
    /\ At(w, "DeleteSecretPermanent", "versions")
    /\ versions' = IF dbFail THEN versions ELSE DeleteBySecretID(versions, inflight[w].id)
    /\ inflight' = [inflight EXCEPT ![w].pc = "row"]
    /\ UNCHANGED <<folders, secrets, perms, kv, nextId, now, last, client, call>>

(* s.secretRepo.Delete(ctx, req.Id, req.Permanent): DeleteOneID or         *)
(* UpdateOneID; NotFound when the row has gone, InternalServerError on     *)
(* another failure; `return nil, err` on either                            *)
DeleteSecretRow(w, dbFail) ==
    /\ inflight[w].op \in {"DeleteSecret", "DeleteSecretPermanent"}
    /\ inflight[w].pc = "row"
    /\ IF SecretGetByID(inflight[w].id) = {}
       THEN /\ inflight' = [inflight EXCEPT ![w].pc = "done", ![w].err = "SecretNotFound"]
            /\ UNCHANGED secrets
       ELSE IF dbFail
       THEN /\ inflight' = [inflight EXCEPT ![w].pc = "done",
                                            ![w].err = "InternalServerError"]
            /\ UNCHANGED secrets
       ELSE /\ secrets' = SecretDelete(secrets, inflight[w].id,
                                       inflight[w].op = "DeleteSecretPermanent")
            /\ inflight' = [inflight EXCEPT ![w].pc = "tuples"]
    /\ UNCHANGED <<folders, versions, perms, kv, nextId, now, last, client, call>>

(* s.permRepo.DeleteByResource(ctx, tenantID, SECRET, req.Id); its failure *)
(* is logged; then the response                                            *)
DeleteSecretTuples(w, dbFail) ==
    /\ inflight[w].op \in {"DeleteSecret", "DeleteSecretPermanent"}
    /\ inflight[w].pc = "tuples"
    /\ perms' = IF dbFail THEN perms
                ELSE DeleteByResource(perms, inflight[w].c.tenant, ResourceTypeSecret,
                                      inflight[w].id)
    /\ inflight' = [inflight EXCEPT ![w].pc = "done"]
    /\ UNCHANGED <<folders, secrets, versions, kv, nextId, now, last, client, call>>

----------------------------------------------------------------------------
(* internal/authz/engine.go: the order of relations.  `call` holds one     *)
(* application of a function: its arguments, and its result once it has    *)
(* returned.                                                               *)

NoCall == [op |-> "", pc |-> "idle"]

(* CompareRelations: by the number of permissions a relation grants *)
CompareRelations(r1, r2) ==
    LET p1 == Len(relationPermissions[r1])
        p2 == Len(relationPermissions[r2])
    IN  IF p1 < p2 THEN -1 ELSE IF p1 > p2 THEN 1 ELSE 0

(* GetHighestRelation's loop from element i on *)
RECURSIVE highestLoop(_, _, _)
highestLoop(highest, relations, i) ==
    IF i > Len(relations) THEN highest
    ELSE highestLoop(IF CompareRelations(relations[i], highest) > 0
                         THEN relations[i] ELSE highest,
                     relations, i + 1)

GetHighestRelation(relations) ==
    IF Len(relations) = 0 THEN "" ELSE highestLoop(relations[1], relations, 2)

RelationHierarchy ==
    [r \in Relations |->
        CASE r = RelationOwner  -> 4
          [] r = RelationEditor -> 3
          [] r = RelationSharer -> 2
          [] r = RelationViewer -> 1]

IsRelationAtLeast(r1, r2) == RelationHierarchy[r1] >= RelationHierarchy[r2]

(* a caller applies GetHighestRelation to the list it holds *)
HighestRelation ==
    /\ call.op = "GetHighestRelation" /\ call.pc = "call"
    /\ call' = [call EXCEPT !.pc = "return", !.result = GetHighestRelation(call.relations)]
    /\ UNCHANGED <<folders, secrets, versions, perms, kv, nextId, now, last, inflight, client>>

----------------------------------------------------------------------------
(* internal/authz/engine.go: checkHierarchy one iteration at a time.       *)
(* `call` holds the locals parentFolderID and visited; `evaluated` lists   *)
(* the folders whose tuples an iteration has looked up, in order.          *)

(* a map that never holds a folder *)
Visited_Never(visited, folderID) == FALSE

(* visited[folderID] *)
Visited(visited, folderID) == folderID \in visited

(* the three look-ups of one iteration on the folder: user, roles, tenant *)
checkFolder(check, roleIDs, folderID) ==
    LET folderCheck == CheckContext(check.TenantID, check.UserID, ResourceTypeFolder,
                                    folderID, check.Permission)
    IN  OrElse(WithReason(checkDirectPermission(folderCheck, SubjectTypeUser, check.UserID),
                          "inherited from parent folder"),
        OrElse(checkRoles(folderCheck, roleIDs, 1, "inherited from parent folder via role"),
               WithReason(checkDirectPermission(folderCheck, SubjectTypeTenant, TenantAll),
                          "inherited from parent folder via tenant")))

(* up to the loop: the secret's folder or the folder's parent *)
checkHierarchyStart ==
    /\ call.op = "checkHierarchy" /\ call.pc = "call"
    /\ call' = [call EXCEPT
           !.parentFolderID =
               IF call.check.ResourceType = ResourceTypeSecret
                   THEN GetSecretFolderID(call.check.ResourceID)
               ELSE IF call.check.ResourceType = ResourceTypeFolder
                   THEN GetFolderParentID(call.check.ResourceID)
               ELSE NoId,
           !.visited = {},
           !.pc = "loop"]
    /\ UNCHANGED <<folders, secrets, versions, perms, kv, nextId, now, last, inflight, client>>

(* one test of `parentFolderID != nil` and the iteration it admits *)
checkHierarchyIterate ==
    /\ call.op = "checkHierarchy" /\ call.pc = "loop"
    /\ IF call.parentFolderID = NoId \/ Visited(call.visited, call.parentFolderID)
       THEN call' = [call EXCEPT !.pc = "return",
                        !.result = CheckResult(FALSE, "", "no inherited permission")]
       ELSE \E r \in checkFolder(call.check, call.roleIDs, call.parentFolderID) :
                call' = [call EXCEPT
                    !.visited = @ \cup {call.parentFolderID},
                    !.evaluated = Append(@, call.parentFolderID),
                    !.pc = IF r.Allowed THEN "return" ELSE "loop",
                    !.result = IF r.Allowed THEN r ELSE @,
                    !.parentFolderID =
                        IF r.Allowed THEN @ ELSE GetFolderParentID(call.parentFolderID)]
    /\ UNCHANGED <<folders, secrets, versions, perms, kv, nextId, now, last, inflight, client>>

----------------------------------------------------------------------------
(* pkg/vault/client.go: Client and its renewal goroutine.  A               *)
(* LifetimeWatcher of the Vault API renews the token it was made for and,  *)
(* when the token can no longer be renewed, sends one value on its DoneCh  *)
(* (a channel of capacity 1 that is never closed) and ends.  watcher is    *)
(* "live" while it renews, "done" while that value waits in DoneCh and     *)
(* "drained" once the value has been received.  logins, renewals and       *)
(* expiries count what the Vault server has seen.                          *)

NoClient ==
    [constructed |-> FALSE, failed |-> FALSE, closed |-> FALSE, running |-> FALSE,
     pc |-> "", watcher |-> "none", cancelled |-> FALSE,
     logins |-> 0, renewals |-> 0, expiries |-> 0]

(* NewClient: with RoleID and SecretID it logs in and starts renewToken;   *)
(* a login that fails fails the construction                               *)
NewClient(credentials, loginOk) ==
    /\ ~client.constructed /\ ~client.failed
    /\ client' =
           IF ~credentials THEN [client EXCEPT !.constructed = TRUE]
           ELSE IF ~loginOk THEN [client EXCEPT !.failed = TRUE, !.logins = @ + 1]
           ELSE [client EXCEPT !.constructed = TRUE, !.logins = @ + 1,
                               !.running = TRUE, !.pc = "select", !.watcher = "live"]
    /\ UNCHANGED <<folders, secrets, versions, perms, kv, nextId, now, last, inflight, call>>

(* case info := <-watcher.RenewCh(): the watcher has renewed the token *)
renewTokenRenewed(maxRenewals) ==
    /\ client.running /\ client.pc = "select" /\ client.watcher = "live"
    /\ client.renewals < maxRenewals
    /\ client' = [client EXCEPT !.renewals = @ + 1]
    /\ UNCHANGED <<folders, secrets, versions, perms, kv, nextId, now, last, inflight, call>>

(* the token passes its max TTL or is revoked: the watcher ends and its    *)
(* DoneCh holds the value                                                  *)
TokenExpires(maxExpiries) ==
    /\ client.watcher = "live" /\ client.expiries < maxExpiries
    /\ client' = [client EXCEPT !.watcher = "done", !.expiries = @ + 1]
    /\ UNCHANGED <<folders, secrets, versions, perms, kv, nextId, now, last, inflight, call>>

(* case err := <-watcher.DoneCh(): authenticateAppRole; on success a new   *)
(* watcher for the new token, on failure the inner select                  *)
renewTokenDone(loginOk) ==
    /\ client.running /\ client.pc = "select" /\ client.watcher = "done"
    /\ client' =
           IF loginOk /\ ~client.cancelled
           THEN [client EXCEPT !.logins = @ + 1, !.watcher = "live"]
           ELSE [client EXCEPT !.logins = @ + 1, !.watcher = "drained", !.pc = "delay"]
    /\ UNCHANGED <<folders, secrets, versions, perms, kv, nextId, now, last, inflight, call>>

(* case <-time.After(10 * time.Second): continue, back to the outer select *)
(* on the channels of the same watcher                                     *)
renewTokenDelayed ==
    /\ client.running /\ client.pc = "delay"
    /\ client' = [client EXCEPT !.pc = "select"]
    /\ UNCHANGED <<folders, secrets, versions, perms, kv, nextId, now, last, inflight, call>>

(* case <-ctx.Done(), in the outer or the inner select: return *)
renewTokenStopped ==
    /\ client.running /\ client.cancelled
    /\ client' = [client EXCEPT !.running = FALSE, !.pc = "",
                                !.watcher = IF @ = "live" THEN "none" ELSE @]
    /\ UNCHANGED <<folders, secrets, versions, perms, kv, nextId, now, last, inflight, call>>

(* Close: c.cancel() when a renewal was started *)
Close ==
    /\ client.constructed /\ ~client.closed
    /\ client' = [client EXCEPT !.closed = TRUE, !.cancelled = client.running]
    /\ UNCHANGED <<folders, secrets, versions, perms, kv, nextId, now, last, inflight, call>>

(* the steps of the renewToken goroutine *)
renewToken == (\E loginOk \in BOOLEAN : renewTokenDone(loginOk))
                  \/ renewTokenDelayed \/ renewTokenStopped

----------------------------------------------------------------------------
(* FolderService.GetFolderTree and FolderRepo.BuildTree.  A response is    *)
(* given by its error and the ids of the folders of its nodes.             *)

(* FolderRepo.ListByParentID *)
ListByParentID(tenantID, parentID) ==
    {f \in folders : f.tenant_id = tenantID /\ f.parent_id = parentID}

(* buildTreeNode: the node of f and, while the depth allows, the nodes of  *)
(* its children                                                            *)
RECURSIVE buildTreeNode(_, _, _)
buildTreeNode(f, currentDepth, maxDepth) ==
    IF maxDepth > 0 /\ currentDepth >= maxDepth THEN {f.id}
    ELSE {f.id} \cup UNION {buildTreeNode(child, currentDepth + 1, maxDepth) :
                                child \in ListByParentID(f.tenant_id, f.id)}

(* BuildTree: from the folder rootID, or from the tenant's root folders *)
BuildTree(tenantID, rootID, maxDepth) ==
    LET roots == IF rootID # NoId THEN FolderGetByID(rootID)
                 ELSE {f \in folders : f.tenant_id = tenantID /\ f.parent_id = NoId}
    IN  UNION {buildTreeNode(root, 0, maxDepth) : root \in roots}

TreeResponse(err, nodes) == [err |-> err, nodes |-> nodes]

(* GetFolderTree: the responses the handler can give; CanReadFolder is     *)
(* asked for the root when the request names one                           *)
GetFolderTree(c, rootID, maxDepth) ==
    {IF ~allowed THEN TreeResponse("AccessDenied", {})
     ELSE IF rootID # NoId /\ FolderGetByID(rootID) = {}
          THEN TreeResponse("FolderNotFound", {})
     ELSE TreeResponse("", BuildTree(c.tenant, rootID, maxDepth))
     : allowed \in DecisionsIfGiven(c, ResourceTypeFolder, rootID, PermissionRead)}

----------------------------------------------------------------------------
(* Engine.ListAccessibleResources and the query behind it *)

(* PermissionRepo.ListResourcesBySubject: the resource ids of the rows     *)
(* that match tenant, subject and resource type                            *)
ListResourcesBySubject(tenantID, subjectType, subjectID, resourceType) ==
    {t.resource_id : t \in {u \in perms :
        /\ u.tenant_id = tenantID
        /\ u.subject_type = subjectType /\ u.subject_id = subjectID
        /\ u.resource_type = resourceType}}

(* the keys of accessibleIDs: the user's, the roles' and the tenant's      *)
(* resources; the permission asked for takes no part                       *)
ListAccessibleResources(tenantID, userID, roleIDs, resourceType, permission) ==
    ListResourcesBySubject(tenantID, SubjectTypeUser, userID, resourceType)
        \cup UNION {ListResourcesBySubject(tenantID, SubjectTypeRole, roleIDs[i], resourceType) :
                        i \in 1..Len(roleIDs)}
        \cup ListResourcesBySubject(tenantID, SubjectTypeTenant, TenantAll, resourceType)

----------------------------------------------------------------------------
(* internal/service/permission_service.go: the paging of                   *)
(* ListAccessibleResources.  A uint32 is the pair <<hi, lo>> of its 16-bit *)
(* halves, so that sums and products wrap at 2^32 as Go's do.              *)

(* 2^16: a uint32 wraps at Half * Half *)
Half == 65536

U32(hi, lo) == <<hi, lo>>

(* uint32(n) of an int that fits in 16 bits *)
ToU32(n) == U32(0, n)

Add32(a, b) ==
    U32((a[1] + b[1] + ((a[2] + b[2]) \div Half)) % Half, (a[2] + b[2]) % Half)

(* a - b, wrapping below zero *)
Sub32(a, b) ==
    LET borrow == IF a[2] < b[2] THEN 1 ELSE 0
    IN  U32((a[1] - b[1] - borrow + 2 * Half) % Half, (a[2] - b[2] + Half) % Half)

(* the product of two 16-bit halves, modulo 2^32 *)
MulHalves(x, y) ==
    LET q == (x \div 256) * y
        r == (x % 256) * y
        low == (q % 256) * 256 + r
    IN  U32(((q \div 256) + (low \div Half)) % Half, low % Half)

Mul32(a, b) ==
    LET low == MulHalves(a[2], b[2])
    IN  U32((low[1] + MulHalves(a[1], b[2])[2] + MulHalves(a[2], b[1])[2]) % Half, low[2])

Gt32(a, b) == a[1] > b[1] \/ (a[1] = b[1] /\ a[2] > b[2])

(* an optional request field that is absent *)
Nil == <<>>

(* page and pageSize after the defaults for absent fields *)
PageOf(reqPage) == IF reqPage # Nil THEN reqPage ELSE ToU32(1)

PageSizeOf(reqPageSize) == IF reqPageSize # Nil THEN reqPageSize ELSE ToU32(100)

(* start and end after the two clamps to len(resourceIDs) *)
PageWindow(page, pageSize, n) ==
    LET start == Mul32(Sub32(page, ToU32(1)), pageSize)
        end == Add32(start, pageSize)
    IN  [start |-> IF Gt32(start, ToU32(n)) THEN n ELSE start[2],
         end |-> IF Gt32(end, ToU32(n)) THEN n ELSE end[2]]

(* resourceIDs[start:end]: a slice with start > end panics *)
PageResponse(resourceIDs, reqPage, reqPageSize) ==
    LET w == PageWindow(PageOf(reqPage), PageSizeOf(reqPageSize), Len(resourceIDs))
    IN  IF w.start > w.end
        THEN [err |-> "panic", ResourceIds |-> <<>>, Total |-> Len(resourceIDs)]
        ELSE [err |-> "", ResourceIds |-> SubSeq(resourceIDs, w.start + 1, w.end),
              Total |-> Len(resourceIDs)]

(* the handler from the list the engine has returned to its response *)
ListAccessiblePage ==
    /\ call.op = "ListAccessibleResources" /\ call.pc = "call"
    /\ call' = [call EXCEPT !.pc = "return",
                    !.result = PageResponse(call.resourceIDs, call.page, call.pageSize)]
    /\ UNCHANGED <<folders, secrets, versions, perms, kv, nextId, now, last, inflight, client>>

----------------------------------------------------------------------------
(* The state after construction: empty tables, an empty KV mount. *)

EmptyKV == [path \in {} |-> <<>>]

Init ==
    /\ folders = {}
    /\ secrets = {}
    /\ versions = {}
    /\ perms = {}
    /\ kv = EmptyKV
    /\ nextId = 1
    /\ now = 1
    /\ last = Ret("Init", "", NoCaller, NoId, 0, NoId, <<>>, FALSE)
    /\ inflight = [w \in Workers |-> IdleRequest]
    /\ client = NoClient
    /\ call = NoCall

----------------------------------------------------------------------------
(* Requests *)

MaxTuples == 4

Ids == 1..MaxIds
OptIds == {NoId} \cup Ids

User7 == <<"7">>
User8 == <<"8">>
RoleOps == <<"o", "p", "s">>

NameA == <<"a">>
NameB == <<"b">>

(* the folders and secrets that have a row *)
Resources ==
    {<<ResourceTypeFolder, f.id>> : f \in folders}
        \cup {<<ResourceTypeSecret, x.id>> : x \in secrets}

(* nil or the id of a folder that has a row *)
FolderIds == {NoId} \cup {f.id : f \in folders}

(* The engine and the permission store in one tenant: folders and secrets  *)
(* are created, access is granted and revoked, tuples with an expiry come  *)
(* in through a backup import, and time passes.                            *)
AuthzCallers == {Caller(1, User7, <<>>), Caller(1, User8, <<RoleOps>>)}

AuthzSubjects ==
    {<<SubjectTypeUser, User8>>, <<SubjectTypeRole, RoleOps>>, <<SubjectTypeTenant, TenantAll>>}

NextAuthz ==
    \/ \E parentID \in OptIds :
           CreateFolder(Caller(1, User7, <<>>), parentID, NameA)
    \/ \E folderID \in OptIds :
           CreateSecret(Caller(1, User7, <<>>), folderID, NameA, "p", <<>>, FALSE, FALSE)
    \/ \E c \in AuthzCallers, r \in Resources,
          relation \in {RelationViewer, RelationEditor}, subject \in AuthzSubjects,
          expiresAt \in {NoExpiry} \cup (1..MaxTime) :
           /\ Cardinality(perms) < MaxTuples
           /\ GrantAccess(c, r[1], r[2], relation, subject[1], subject[2], expiresAt)
    \/ \E c \in AuthzCallers, r \in Resources, subject \in AuthzSubjects :
           RevokeAccess(c, r[1], r[2], "", subject[1], subject[2])
    \/ \E f \in folders, subject \in AuthzSubjects :
           /\ Cardinality(perms) < MaxTuples
           /\ ImportPermission(Caller(1, User7, <<>>), ResourceTypeFolder, f.id, RelationViewer,
                               subject[1], subject[2], 1)
    \/ Tick

SpecAuthz == Init /\ [][NextAuthz]_vars

(* Two tenants use the Folder, Secret and Permission services; the user   *)
(* id "7" exists in both.  Every request may name any id, also one of the  *)
(* other tenant.                                                           *)
TenantCallers == {Caller(1, User7, <<>>), Caller(2, User7, <<>>)}

TenantSubjects == {<<SubjectTypeTenant, TenantAll>>}

NextTenant ==
    \/ \E c \in TenantCallers, parentID \in FolderIds :
           CreateFolder(c, parentID, NameA)
    \/ \E c \in TenantCallers, folderID \in FolderIds :
           CreateSecret(c, folderID, NameA, "p", <<>>, FALSE, FALSE)
    \/ \E c \in TenantCallers, r \in Resources, subject \in TenantSubjects :
           /\ Cardinality(perms) < MaxTuples
           /\ GrantAccess(c, r[1], r[2], RelationEditor, subject[1], subject[2], NoExpiry)
    \/ \E c \in TenantCallers, r \in Resources, subject \in TenantSubjects :
           RevokeAccess(c, r[1], r[2], "", subject[1], subject[2])
    \/ \E c \in TenantCallers, f \in folders, newParentID \in FolderIds :
           MoveFolder(c, f.id, newParentID)
    \/ \E c \in TenantCallers, x \in secrets, newFolderID \in FolderIds :
           MoveSecret(c, x.id, newFolderID)
    \/ \E c \in TenantCallers, f \in folders, force \in BOOLEAN :
           DeleteFolder(c, f.id, force)
    \/ \E c \in TenantCallers, x \in secrets :
           DeleteSecret(c, x.id, TRUE, FALSE)

SpecTenant == Init /\ [][NextTenant]_vars

(* The life of secrets in one tenant: the vault can fail on any write or   *)
(* destroy.  UserWide's id is a decimal number one above the largest       *)
(* 32-bit value.                                                           *)
UserWide == <<"4", "2", "9", "4", "9", "6", "7", "2", "9", "6">>

SecretCallers == {Caller(1, User7, <<>>), Caller(1, UserWide, <<>>)}

Passwords == {"p", "q"}

InitialPermissions == {<<>>, <<InitialPermission(RelationViewer, SubjectTypeUser, User8)>>}

NextSecret ==
    \/ \E c \in SecretCallers, parentID \in FolderIds :
           CreateFolder(c, parentID, NameA)
    \/ \E c \in SecretCallers, folderID \in FolderIds, password \in Passwords,
          initial \in InitialPermissions, kvFail \in BOOLEAN, cleanupFail \in BOOLEAN :
           CreateSecret(c, folderID, NameA, password, initial, kvFail, cleanupFail)
    \/ \E c \in SecretCallers, x \in secrets, password \in Passwords, kvFail \in BOOLEAN :
           UpdateSecretPassword(c, x.id, password, kvFail)
    \/ \E c \in SecretCallers, x \in secrets, versionNumber \in 1..MaxKvVersions,
          kvFail \in BOOLEAN :
           RestoreVersion(c, x.id, versionNumber, kvFail)
    \/ \E c \in SecretCallers, x \in secrets, permanent \in BOOLEAN, kvFail \in BOOLEAN :
           DeleteSecret(c, x.id, permanent, kvFail)

SpecSecret == Init /\ [][NextSecret]_vars

(* The folder tree of one tenant: its owner creates, renames and moves     *)
(* folders, one request after the other.                                   *)
MaxFolders == 3

(* the depth column is not rewritten below a moved folder, so it can grow  *)
(* with every move; requests stop at a parent this deep                    *)
MaxDepth == 3

FolderNames == {NameA, NameB}

(* nil or a folder whose depth column is below MaxDepth *)
ParentIds == {NoId} \cup {f.id : f \in {g \in folders : g.depth < MaxDepth}}

NextFolder ==
    \/ \E parentID \in ParentIds, name \in FolderNames :
           /\ Cardinality(folders) < MaxFolders
           /\ CreateFolder(Caller(1, User7, <<>>), parentID, name)
    \/ \E f \in folders, name \in FolderNames :
           UpdateFolder(Caller(1, User7, <<>>), f.id, name)
    \/ \E f \in folders, newParentID \in ParentIds :
           MoveFolder(Caller(1, User7, <<>>), f.id, newParentID)

SpecFolder == Init /\ [][NextFolder]_vars

(* Two CreateSecret requests of the same user race in one tenant, at the   *)
(* root or in a folder made beforehand; the vault can fail on the put and  *)
(* on the clean-up.                                                        *)
NextRaceCreate ==
    \/ /\ folders = {}
       /\ \A w \in Workers : inflight[w].pc = "idle"
       /\ CreateFolder(Caller(1, User7, <<>>), NoId, NameA)
    \/ \E w \in Workers, folderID \in FolderIds, name \in {NameA, NameB},
          password \in Passwords :
           CreateSecretBegin(w, Caller(1, User7, <<>>), folderID, name, password)
    \/ \E w \in Workers, kvFail \in BOOLEAN : CreateSecretPut(w, kvFail)
    \/ \E w \in Workers : CreateSecretInsert(w)
    \/ \E w \in Workers, cleanupFail \in BOOLEAN : CreateSecretCleanup(w, cleanupFail)
    \/ \E w \in Workers : CreateSecretVersion(w)
    \/ \E w \in Workers : CreateSecretOwner(w)

SpecRaceCreate == Init /\ [][NextRaceCreate]_vars

(* Two UpdateSecretPassword requests race on secrets made beforehand. *)
NextRacePassword ==
    \/ /\ \A w \in Workers : inflight[w].pc = "idle"
       /\ \E password \in Passwords :
              CreateSecret(Caller(1, User7, <<>>), NoId, NameA, password, <<>>, FALSE, FALSE)
    \/ \E w \in Workers, x \in secrets, password \in Passwords :
           UpdateSecretPasswordBegin(w, Caller(1, User7, <<>>), x.id, password)
    \/ \E w \in Workers, kvFail \in BOOLEAN : UpdateSecretPasswordPut(w, kvFail)
    \/ \E w \in Workers : UpdateSecretPasswordVersion(w)
    \/ \E w \in Workers : UpdateSecretPasswordAdvance(w)

SpecRacePassword == Init /\ [][NextRacePassword]_vars

(* Two GrantAccess requests of a folder's owner race; a backup import      *)
(* brings in tuples with an expiry.                                        *)
RaceSubjects == {<<SubjectTypeUser, User8>>, <<SubjectTypeTenant, TenantAll>>}

NextRaceGrant ==
    \/ /\ \A w \in Workers : inflight[w].pc = "idle"
       /\ \E name \in {NameA, NameB} : CreateFolder(Caller(1, User7, <<>>), NoId, name)
    \/ \E f \in folders :
           ImportPermission(Caller(1, User7, <<>>), ResourceTypeFolder, f.id, RelationViewer,
                            SubjectTypeTenant, TenantAll, 1)
    \/ \E w \in Workers, f \in folders, relation \in {RelationViewer, RelationEditor},
          subject \in RaceSubjects, expiresAt \in {NoExpiry, 1} :
           GrantAccessBegin(w, Caller(1, User7, <<>>), ResourceTypeFolder, f.id, relation,
                            subject[1], subject[2], expiresAt)
    \/ \E w \in Workers : GrantAccessCreate(w)

SpecRaceGrant == Init /\ [][NextRaceGrant]_vars

(* Two MoveFolder requests of the owner race on root folders made          *)
(* beforehand.                                                             *)
NextRaceMove ==
    \/ /\ \A w \in Workers : inflight[w].pc = "idle"
       /\ \E name \in FolderNames : CreateFolder(Caller(1, User7, <<>>), NoId, name)
    \/ \E w \in Workers, f \in folders, newParentID \in FolderIds :
           MoveFolderBegin(w, Caller(1, User7, <<>>), f.id, newParentID)
    \/ \E w \in Workers : MoveFolderSave(w)

SpecRaceMove == Init /\ [][NextRaceMove]_vars

----------------------------------------------------------------------------
(* Two DeleteSecret requests of a secret's owner, permanent or not, each   *)
(* of whose store accesses may fail; the secrets are made while no         *)
(* request is in flight.                                                   *)

NextRaceDelete ==
    \/ /\ \A w \in Workers : inflight[w].pc = "idle"
       /\ \E name \in FolderNames, initial \in InitialPermissions :
              CreateSecret(Caller(1, User7, <<>>), NoId, name, "p", initial, FALSE, FALSE)
    \/ \E w \in Workers, x \in secrets, permanent \in BOOLEAN :
           DeleteSecretBegin(w, Caller(1, User7, <<>>), x.id, permanent)
    \/ \E w \in Workers, kvFail \in BOOLEAN : DeleteSecretDestroy(w, kvFail)
    \/ \E w \in Workers, dbFail \in BOOLEAN : DeleteSecretVersions(w, dbFail)
    \/ \E w \in Workers, dbFail \in BOOLEAN : DeleteSecretRow(w, dbFail)
    \/ \E w \in Workers, dbFail \in BOOLEAN : DeleteSecretTuples(w, dbFail)

SpecRaceDelete == Init /\ [][NextRaceDelete]_vars

----------------------------------------------------------------------------
(* A secret's owner and a user to whom the owner gave RELATION_EDITOR at   *)
(* the creation: both update the secret's name and status, move it and     *)
(* delete it.                                                              *)

StatusCallers == {Caller(1, User7, <<>>), Caller(1, User8, <<>>)}

EditorPermission == <<InitialPermission(RelationEditor, SubjectTypeUser, User8)>>

Statuses == {NoStatus, SecretStatusActive, SecretStatusArchived, SecretStatusDeleted}

NextStatus ==
    \/ CreateFolder(Caller(1, User7, <<>>), NoId, NameA)
    \/ \E folderID \in FolderIds :
           CreateSecret(Caller(1, User7, <<>>), folderID, NameA, "p", EditorPermission,
                        FALSE, FALSE)
    \/ \E c \in StatusCallers, x \in secrets, name \in {NoName, NameB}, status \in Statuses :
           UpdateSecret(c, x.id, name, status)
    \/ \E c \in StatusCallers, x \in secrets, folderID \in FolderIds :
           MoveSecret(c, x.id, folderID)
    \/ \E c \in StatusCallers, x \in secrets, permanent \in BOOLEAN :
           DeleteSecret(c, x.id, permanent, FALSE)

SpecStatus == Init /\ [][NextStatus]_vars

----------------------------------------------------------------------------
(* GetHighestRelation applied to every list of up to MaxRelations          *)
(* relations.                                                              *)

MaxRelations == 3

RelationLists == UNION {[1..n -> Relations] : n \in 0..MaxRelations}

InitRelations ==
    /\ folders = {} /\ secrets = {} /\ versions = {} /\ perms = {}
    /\ kv = EmptyKV /\ nextId = 1 /\ now = 1
    /\ last = Ret("Init", "", NoCaller, NoId, 0, NoId, <<>>, FALSE)
    /\ inflight = [w \in Workers |-> IdleRequest]
    /\ client = NoClient
    /\ call \in {[op |-> "GetHighestRelation", pc |-> "call", relations |-> l, result |-> ""] :
                    l \in RelationLists}

NextRelations == HighestRelation

SpecRelations == InitRelations /\ [][NextRelations]_vars

----------------------------------------------------------------------------
(* checkHierarchy on folder tables whose parent pointers are arbitrary:    *)
(* self-parents, cycles (two concurrent moves produce them) and pointers   *)
(* to ids without a row.  The walk is a loop of one goroutine, which the   *)
(* scheduler keeps running: weak fairness of its steps.                    *)

MaxWalkFolders == 3

WalkFolders == 1..MaxWalkFolders

(* the id of no folder row *)
UnknownFolder == MaxWalkFolders + 1

(* the id of the one secret, which lies in folder 1 *)
WalkSecret == CHOOSE id \in Ids : TRUE

WalkTuples ==
    {{}, {PermissionTuple(1, ResourceTypeFolder, MaxWalkFolders, RelationViewer, SubjectTypeUser, User7,
                          NoExpiry)}}

InitWalk ==
    /\ \E parentOf \in [WalkFolders -> {NoId, UnknownFolder} \cup WalkFolders] :
           folders = {Folder(id, 1, parentOf[id], NameA, <<>>, 0) : id \in WalkFolders}
    /\ secrets = {Secret(WalkSecret, 1, 1, NameA, BuildPath(1, WalkSecret), 1,
                         SecretStatusActive)}
    /\ versions = {}
    /\ perms \in WalkTuples
    /\ kv = EmptyKV /\ nextId = 1 /\ now = 1
    /\ last = Ret("Init", "", NoCaller, NoId, 0, NoId, <<>>, FALSE)
    /\ inflight = [w \in Workers |-> IdleRequest]
    /\ client = NoClient
    /\ \E r \in {<<ResourceTypeSecret, WalkSecret>>}
                    \cup {<<ResourceTypeFolder, id>> : id \in WalkFolders} :
           call = [op |-> "checkHierarchy", pc |-> "call",
                   check |-> CheckContext(1, User7, r[1], r[2], PermissionRead),
                   roleIDs |-> <<>>, parentFolderID |-> NoId, visited |-> {},
                   evaluated |-> <<>>, result |-> CheckResult(FALSE, "", "")]

NextWalk == checkHierarchyStart \/ checkHierarchyIterate

SpecWalk == InitWalk /\ [][NextWalk]_vars /\ WF_vars(NextWalk)

----------------------------------------------------------------------------
(* The vault client from its construction to its Close, with a Vault whose *)
(* logins may fail and whose tokens expire.  The goroutine is scheduled    *)
(* whenever it can take a step: weak fairness of renewToken.  Close is the *)
(* application's choice.                                                   *)

MaxRenewals == 3

MaxExpiries == 4

NextClient ==
    \/ \E credentials \in BOOLEAN, loginOk \in BOOLEAN : NewClient(credentials, loginOk)
    \/ renewTokenRenewed(MaxRenewals)
    \/ TokenExpires(MaxExpiries)
    \/ renewToken
    \/ Close

SpecClient == Init /\ [][NextClient]_vars /\ WF_vars(renewToken)

----------------------------------------------------------------------------
(* The paging applied to lists of up to MaxList ids with pages and page    *)
(* sizes that are absent, zero, small, or so large that their product      *)
(* passes 2^32.                                                            *)

MaxList == 4

MaxU32 == U32(Half - 1, Half - 1)

PageValues == {Nil, ToU32(0), ToU32(1), ToU32(2), ToU32(3), U32(1, 1), U32(32768, 0), MaxU32}

PageSizeValues == {Nil, ToU32(0), ToU32(1), ToU32(2), U32(1, 0), U32(32768, 0), MaxU32}

InitPaging ==
    /\ folders = {} /\ secrets = {} /\ versions = {} /\ perms = {}
    /\ kv = EmptyKV /\ nextId = 1 /\ now = 1
    /\ last = Ret("Init", "", NoCaller, NoId, 0, NoId, <<>>, FALSE)
    /\ inflight = [w \in Workers |-> IdleRequest]
    /\ client = NoClient
    /\ \E n \in 0..MaxList, page \in PageValues, pageSize \in PageSizeValues :
           call = [op |-> "ListAccessibleResources", pc |-> "call",
                   resourceIDs |-> [i \in 1..n |-> i], page |-> page, pageSize |-> pageSize,
                   result |-> [err |-> "", ResourceIds |-> <<>>, Total |-> 0]]

NextPaging == ListAccessiblePage

SpecPaging == InitPaging /\ [][NextPaging]_vars

----------------------------------------------------------------------------
(* What the claims about the engine speak of, stated on the rows alone.    *)

(* the relation-to-permission matrix *)
Grants(relation, permission) ==
    \/ relation = RelationOwner /\ permission \in Permissions
    \/ relation = RelationEditor /\ permission \in {PermissionRead, PermissionWrite}
    \/ relation = RelationViewer /\ permission = PermissionRead
    \/ relation = RelationSharer /\ permission \in {PermissionRead, PermissionShare}

(* expires_at absent or not in the past *)
Unexpired(t) == t.expires_at = NoExpiry \/ t.expires_at >= now

(* the folder ids met from folder id by following parent pointers, id      *)
(* itself first                                                            *)
RECURSIVE FolderChain(_, _)
FolderChain(id, fuel) ==
    IF id = NoId \/ fuel = 0 THEN {}
    ELSE {id} \cup UNION {FolderChain(f.parent_id, fuel - 1) : f \in {g \in folders : g.id = id}}

(* the folders above a resource *)
FoldersAbove(resourceType, resourceID) ==
    IF resourceType = ResourceTypeSecret
    THEN UNION {FolderChain(x.folder_id, MaxIds + 1) : x \in {y \in secrets : y.id = resourceID}}
    ELSE UNION {FolderChain(f.parent_id, MaxIds + 1) : f \in {g \in folders : g.id = resourceID}}

Acyclic == \A f \in folders : f.id \notin FoldersAbove(ResourceTypeFolder, f.id)

(* tuple t names the caller: as USER, through a role, or as the tenant *)
NamesCaller(t, c) ==
    \/ t.subject_type = SubjectTypeUser /\ t.subject_id = c.user
    \/ t.subject_type = SubjectTypeRole /\ \E i \in 1..Len(c.roles) : t.subject_id = c.roles[i]
    \/ t.subject_type = SubjectTypeTenant /\ t.subject_id = TenantAll

(* tuple t sits on the resource or on a folder above it *)
OnOrAbove(t, resourceType, resourceID) ==
    \/ t.resource_type = resourceType /\ t.resource_id = resourceID
    \/ t.resource_type = ResourceTypeFolder
           /\ t.resource_id \in FoldersAbove(resourceType, resourceID)

(* C1: if the store holds an unexpired tuple on the resource with subject  *)
(* (USER, user) whose relation grants P, Check returns allow, whatever     *)
(* other tuples the user holds on the same resource.                       *)
C1_DirectGrantAllows ==
    \A c \in AuthzCallers, resourceType \in ResourceTypes, resourceID \in Ids,
       permission \in Permissions :
        (\E t \in perms :
            /\ t.tenant_id = c.tenant
            /\ t.resource_type = resourceType /\ t.resource_id = resourceID
            /\ t.subject_type = SubjectTypeUser /\ t.subject_id = c.user
            /\ Unexpired(t) /\ Grants(t.relation, permission))
        => ~MayDeny(c, resourceType, resourceID, permission)

(* C2: in an acyclic state, if Check allows P on folder F, it allows P to  *)
(* the same caller on every folder below F and on every secret in F or     *)
(* below it; both for "can allow" and for "always allows".                 *)
C2_InheritanceMonotone ==
    Acyclic =>
        \A c \in AuthzCallers, F \in Ids, permission \in Permissions :
            /\ \A x \in folders :
                   F \in FoldersAbove(ResourceTypeFolder, x.id) =>
                       /\ MayAllow(c, ResourceTypeFolder, F, permission)
                              => MayAllow(c, ResourceTypeFolder, x.id, permission)
                       /\ ~MayDeny(c, ResourceTypeFolder, F, permission)
                              => ~MayDeny(c, ResourceTypeFolder, x.id, permission)
            /\ \A x \in secrets :
                   F \in FoldersAbove(ResourceTypeSecret, x.id) =>
                       /\ MayAllow(c, ResourceTypeFolder, F, permission)
                              => MayAllow(c, ResourceTypeSecret, x.id, permission)
                       /\ ~MayDeny(c, ResourceTypeFolder, F, permission)
                              => ~MayDeny(c, ResourceTypeSecret, x.id, permission)

(* a caller is allowed READ on a secret only through a folder two levels up *)
C2_Witness ==
    \E c \in AuthzCallers, x \in secrets, f \in folders :
        /\ Acyclic
        /\ x.folder_id = f.id /\ f.parent_id # NoId
        /\ ~MayDeny(c, ResourceTypeFolder, f.parent_id, PermissionRead)
        /\ ~MayDeny(c, ResourceTypeSecret, x.id, PermissionRead)
        /\ \A t \in perms : NamesCaller(t, c) => t.resource_id = f.parent_id

(* C3: Check allows only if a tuple on the resource or on a folder above   *)
(* it names the caller (user, role or tenant), grants the permission and   *)
(* is unexpired; otherwise it denies with reason "no permission found".    *)
C3_CheckSound ==
    \A c \in AuthzCallers, resourceType \in ResourceTypes, resourceID \in Ids,
       permission \in Permissions :
        LET backed == \E t \in perms :
                          /\ t.tenant_id = c.tenant
                          /\ OnOrAbove(t, resourceType, resourceID)
                          /\ NamesCaller(t, c)
                          /\ Grants(t.relation, permission)
                          /\ Unexpired(t)
        IN  /\ MayAllow(c, resourceType, resourceID, permission) => backed
            /\ ~backed =>
                   \A r \in CheckPermission(c, resourceType, resourceID, permission) :
                       ~r.Allowed /\ r.Reason = "no permission found"

(* an expired VIEWER tuple on a folder: READ is denied on the folder and   *)
(* on a secret in it                                                       *)
C3_Witness ==
    \E c \in AuthzCallers, t \in perms, x \in secrets :
        /\ NamesCaller(t, c) /\ ~Unexpired(t)
        /\ t.resource_type = ResourceTypeFolder /\ x.folder_id = t.resource_id
        /\ ~MayAllow(c, ResourceTypeFolder, t.resource_id, PermissionRead)
        /\ ~MayAllow(c, ResourceTypeSecret, x.id, PermissionRead)

(* C4: every tuple carries the tenant of the folder or secret it refers    *)
(* to, and Check for a caller of one tenant never allows a permission on   *)
(* a folder or secret of another tenant.                                   *)
C4_TenantIsolation ==
    /\ \A t \in perms :
           /\ \A f \in folders :
                  (t.resource_type = ResourceTypeFolder /\ t.resource_id = f.id)
                      => t.tenant_id = f.tenant_id
           /\ \A x \in secrets :
                  (t.resource_type = ResourceTypeSecret /\ t.resource_id = x.id)
                      => t.tenant_id = x.tenant_id
    /\ \A c \in TenantCallers, permission \in Permissions :
           /\ \A f \in folders :
                  f.tenant_id # c.tenant => ~MayAllow(c, ResourceTypeFolder, f.id, permission)
           /\ \A x \in secrets :
                  x.tenant_id # c.tenant => ~MayAllow(c, ResourceTypeSecret, x.id, permission)

(* tenant 1 has a folder open to its whole tenant with a secret in it, and *)
(* tenant 2, which has a folder of its own, has just been refused a move   *)
C4_Witness ==
    \E f \in folders, g \in folders, x \in secrets, t \in perms :
        /\ f.tenant_id = 1 /\ g.tenant_id = 2 /\ x.tenant_id = 1 /\ x.folder_id = f.id
        /\ t.tenant_id = 1 /\ t.resource_type = ResourceTypeFolder /\ t.resource_id = f.id
        /\ t.subject_type = SubjectTypeTenant
        /\ last.op = "MoveSecret" /\ last.err = "AccessDenied"
        /\ ~MayAllow(Caller(2, User7, <<>>), ResourceTypeSecret, x.id, PermissionRead)

----------------------------------------------------------------------------
(* What the claims about secrets speak of. *)

VersionNumbers(vs, secretID) == {v.version_number : v \in {w \in vs : w.secret_id = secretID}}

SecretOps == {"CreateSecret", "UpdateSecretPassword", "RestoreVersion"}

(* C5: after every successful CreateSecret, UpdateSecretPassword and       *)
(* RestoreVersion, every secret's current_version is the largest           *)
(* version_number among its version rows and the KV object at its          *)
(* vault_path contains that version.                                       *)
C5_CurrentVersionIsLatestRow ==
    (last.op \in SecretOps /\ last.err = "") =>
        \A x \in secrets :
            /\ x.current_version \in VersionNumbers(versions, x.id)
            /\ \A n \in VersionNumbers(versions, x.id) : n <= x.current_version
            /\ x.vault_path \in DOMAIN kv
            /\ x.current_version \in 1..Len(kv[x.vault_path])

(* C6: each successful UpdateSecretPassword and each successful            *)
(* RestoreVersion adds exactly one version row for the secret and          *)
(* nothing else changes in the version table, so the rows stay numbered    *)
(* 1..current_version.                                                     *)
C6_OneVersionRowPerChange ==
    [][(last'.op \in {"UpdateSecretPassword", "RestoreVersion"} /\ last'.err = "") =>
           /\ versions \subseteq versions'
           /\ \E v \in versions' \ versions :
                  /\ versions' = versions \cup {v}
                  /\ v.secret_id = last'.id /\ v.version_number = last'.ver
           /\ VersionNumbers(versions', last'.id) = 1..last'.ver]_vars

C8_PermanentDeleteCleansUp ==
    [][(last'.op = "DeleteSecretPermanent" /\ last'.err = "") =>
           LET S == TheSecret(last'.id)
           IN  /\ \A x \in secrets' : x.id # S.id
               /\ \A v \in versions' : v.secret_id # S.id
               /\ S.vault_path \notin DOMAIN kv'
               /\ \A t \in perms' :
                      ~(t.resource_type = ResourceTypeSecret /\ t.resource_id = S.id)]_vars

(* C9: after every successful CreateSecret by user u an OWNER tuple with   *)
(* subject (USER, u) exists on the new secret in the caller's tenant,      *)
(* Check allows u READ, WRITE, DELETE and SHARE on it and                  *)
(* GetSecretPassword by u returns the created password with version 1;     *)
(* after every successful CreateFolder the creator has an OWNER tuple on   *)
(* the new folder.                                                         *)
C9_CreatorIsOwner ==
    LET c == Caller(last.tenant, last.user, last.roles)
        owner(resourceType) ==
            \E t \in perms :
                /\ t.tenant_id = last.tenant
                /\ t.resource_type = resourceType /\ t.resource_id = last.id
                /\ t.relation = RelationOwner
                /\ t.subject_type = SubjectTypeUser /\ t.subject_id = last.user
    IN  /\ (last.op = "CreateSecret" /\ last.err = "") =>
               /\ owner(ResourceTypeSecret)
               /\ \A permission \in Permissions :
                      ~MayDeny(c, ResourceTypeSecret, last.id, permission)
               /\ \A resp \in GetSecretPassword(c, last.id, 0) :
                      resp.err = "" /\ resp.password = last.password /\ resp.version = 1
        /\ (last.op = "CreateFolder" /\ last.err = "") => owner(ResourceTypeFolder)

(* C10: a CreateSecret whose KV put fails returns a vault operation error  *)
(* and creates no secret row, no version row, no tuple and no KV object; a *)
(* retry of the same request that succeeds adds exactly one secret row     *)
(* with current_version 1, one version row numbered 1 and one KV object    *)
(* with a single version.                                                  *)
C10_CreateUnderKVFailure ==
    [][/\ (last'.op = "CreateSecret" /\ last'.err = "VaultOperationError") =>
              UNCHANGED <<secrets, versions, perms, kv>>
       /\ (last'.op = "CreateSecret" /\ last'.err = "" /\ last'.retry) =>
              \E x \in secrets' \ secrets :
                  /\ secrets \subseteq secrets' /\ secrets' \ secrets = {x}
                  /\ x.id = last'.id /\ x.current_version = 1
                  /\ x.name = last.name /\ x.folder_id = last.folder
                  /\ versions \subseteq versions'
                  /\ \E v \in versions' \ versions :
                         /\ versions' \ versions = {v}
                         /\ v.secret_id = x.id /\ v.version_number = 1
                  /\ DOMAIN kv' = DOMAIN kv \cup {x.vault_path}
                  /\ x.vault_path \notin DOMAIN kv
                  /\ kv'[x.vault_path] = <<last.password>>
                  /\ \A q \in DOMAIN kv : kv'[q] = kv[q]]_vars

(* a CreateSecret succeeded right after the same request failed on the put *)
C10_Witness == last.op = "CreateSecret" /\ last.err = "" /\ last.retry

----------------------------------------------------------------------------
(* What the claims about concurrent requests speak of. *)

(* both requests have returned from the same handler with the same tenant, *)
(* folder and name                                                         *)
SameCreate(a, b) ==
    /\ a.op = "CreateSecret" /\ a.pc = "done"
    /\ b.op = "CreateSecret" /\ b.pc = "done"
    /\ a.c.tenant = b.c.tenant /\ a.folder = b.folder /\ a.name = b.name

(* win created the secret, lose was refused and left nothing behind *)
OneWins(win, lose) ==
    /\ win.err = "" /\ lose.err = "SecretAlreadyExists"
    /\ \E x \in secrets :
           /\ x.id = win.id /\ x.vault_path = win.path
           /\ \A y \in secrets :
                  (y.tenant_id = x.tenant_id /\ y.folder_id = x.folder_id /\ y.name = x.name)
                      => y = x
    /\ \A v \in versions : v.vault_path # lose.path
    /\ \A x \in secrets : x.vault_path # lose.path
    /\ \A t \in perms : t.resource_type = ResourceTypeSecret => t.resource_id = win.id
    /\ lose.cleaned => (lose.path \notin DOMAIN kv /\ win.path \in DOMAIN kv)

(* C11: of two concurrent CreateSecret requests with the same (tenant,     *)
(* folder, name) whose KV puts succeeded, exactly one succeeds and the     *)
(* other returns AlreadyExists; the loser leaves no version row and no     *)
(* tuple, one secret row exists and, when the loser's destroyAll           *)
(* succeeded, one KV object.                                               *)
C11_ConcurrentCreateOneWins ==
    \A w \in Workers, v \in Workers :
        (/\ w # v /\ SameCreate(inflight[w], inflight[v])
         /\ inflight[w].err # "VaultOperationError"
         /\ inflight[v].err # "VaultOperationError")
        => (OneWins(inflight[w], inflight[v]) \/ OneWins(inflight[v], inflight[w]))

(* the same race in a folder *)
C11_InFolder ==
    \A w \in Workers, v \in Workers :
        (/\ w # v /\ SameCreate(inflight[w], inflight[v])
         /\ inflight[w].folder # NoId
         /\ inflight[w].err # "VaultOperationError"
         /\ inflight[v].err # "VaultOperationError")
        => (OneWins(inflight[w], inflight[v]) \/ OneWins(inflight[v], inflight[w]))

(* both requests have changed the password of the same secret *)
BothUpdated(a, b) ==
    /\ a.op = "UpdateSecretPassword" /\ a.pc = "done" /\ a.err = ""
    /\ b.op = "UpdateSecretPassword" /\ b.pc = "done" /\ b.err = ""
    /\ a.id = b.id

(* the vault holds what request r wrote at the version number it got *)
RetainedInKV(r) ==
    /\ r.path \in DOMAIN kv
    /\ r.ver \in 1..Len(kv[r.path])
    /\ kv[r.path][r.ver] = r.password

(* C12: of two concurrent UpdateSecretPassword requests on one secret,     *)
(* both written KV versions are retained under distinct version numbers,   *)
(* each is retrievable by its version number through GetSecretPassword,    *)
(* and current_version is the version of the request whose UpdateVersion   *)
(* committed last.                                                         *)
C12_ConcurrentUpdatesRetained ==
    [][\A w \in Workers, v \in Workers :
           /\ (At(w, "UpdateSecretPassword", "advance") /\ Returned(w, "UpdateSecretPassword")'
                   /\ inflight'[w].err = "")
                  => TheSecret(inflight[w].id)'.current_version = inflight[w].ver
           /\ (w # v /\ BothUpdated(inflight[w], inflight[v])') =>
                  /\ inflight'[w].ver # inflight'[v].ver
                  /\ RetainedInKV(inflight[w])'
                  /\ \A resp \in GetSecretPassword(inflight[w].c, inflight[w].id,
                                                    inflight[w].ver)' :
                         resp.err = "" /\ resp.password = inflight'[w].password]_vars

(* the same without the read through GetSecretPassword *)
C12_InKV ==
    [][\A w \in Workers, v \in Workers :
           /\ (At(w, "UpdateSecretPassword", "advance") /\ Returned(w, "UpdateSecretPassword")'
                   /\ inflight'[w].err = "")
                  => TheSecret(inflight[w].id)'.current_version = inflight[w].ver
           /\ (w # v /\ BothUpdated(inflight[w], inflight[v])') =>
                  /\ inflight'[w].ver # inflight'[v].ver
                  /\ RetainedInKV(inflight[w])']_vars

(* the request that got the later KV version advanced the pointer first:   *)
(* current_version is below the vault's latest version                     *)
C12_PointerBehind ==
    \E w \in Workers, v \in Workers, x \in secrets :
        /\ w # v /\ BothUpdated(inflight[w], inflight[v]) /\ x.id = inflight[w].id
        /\ x.current_version = inflight[w].ver
        /\ inflight[w].ver < inflight[v].ver
        /\ x.current_version < Len(kv[x.vault_path])

(* the six columns of the unique index *)
KeyOf(t) ==
    <<t.tenant_id, t.resource_type, t.resource_id, t.relation, t.subject_type, t.subject_id>>

(* both requests have come back from the insert of the same tuple *)
SameGrant(a, b) ==
    /\ a.op = "GrantAccess" /\ a.pc = "done" /\ a.err \in {"", "PermissionAlreadyExists"}
    /\ b.op = "GrantAccess" /\ b.pc = "done" /\ b.err \in {"", "PermissionAlreadyExists"}
    /\ KeyOf(a.tuple) = KeyOf(b.tuple)

----------------------------------------------------------------------------
(* What the claims about the folder tree speak of. *)

(* the path and the depth a folder has by its name and its parent's row *)
PathByParent(f) ==
    IF f.parent_id = NoId THEN JoinPath(<<>>, f.name)
    ELSE JoinPath(TheFolder(f.parent_id).path, f.name)

DepthByParent(f) ==
    IF f.parent_id = NoId THEN 0 ELSE TheFolder(f.parent_id).depth + 1

(* C14: after every successful CreateFolder, UpdateFolder and MoveFolder,  *)
(* every folder's path is its parent's path + "/" + its name, and "/" +    *)
(* its name for a root.                                                    *)
C14_PathInvariant ==
    (last.op \in {"CreateFolder", "UpdateFolder", "MoveFolder"} /\ last.err = "") =>
        \A f \in folders :
            /\ f.parent_id # NoId => FolderGetByID(f.parent_id) # {}
            /\ f.path = PathByParent(f)

(* C15: after every successful MoveFolder, the moved folder and every      *)
(* folder below it have depth = parent's depth + 1, roots depth 0.         *)
C15_DepthAfterMove ==
    (last.op = "MoveFolder" /\ last.err = "") =>
        \A f \in folders :
            (f.id = last.id \/ last.id \in FoldersAbove(ResourceTypeFolder, f.id))
                => f.depth = DepthByParent(f)

C17_NoCyclesUnderConcurrency == Acyclic

(* the folders of f's tenant at or below f's path *)
SubtreeByPath(f) ==
    {g \in folders :
        /\ g.tenant_id = f.tenant_id
        /\ (g.id = f.id \/ HasPrefix(g.path, f.path \o Slash))}

(* C18: a successful DeleteFolder(id, force = true) on a folder of tenant  *)
(* T removes exactly that folder and T's folders whose path begins with    *)
(* its path + "/"; no folder of another tenant is removed or modified.     *)
C18_ForceDeleteInTenant ==
    [][\A c \in TenantCallers, f \in folders :
           (DeleteFolder(c, f.id, TRUE) /\ last'.err = "") =>
               /\ f.tenant_id = c.tenant
               /\ \A g \in folders : g.tenant_id # c.tenant => g \in folders'
               /\ folders' = folders \ SubtreeByPath(f)]_vars

(* the same for the rows of the folder's own tenant only *)
C18_OwnTenantRows ==
    [][\A c \in TenantCallers, f \in folders :
           (DeleteFolder(c, f.id, TRUE) /\ last'.err = "") =>
               /\ f.tenant_id = c.tenant
               /\ {g \in folders' : g.tenant_id = c.tenant}
                      = {g \in folders : g.tenant_id = c.tenant} \ SubtreeByPath(f)]_vars

----------------------------------------------------------------------------
(* What the claims about expiry and decision reasons speak of. *)

(* C19: a grant made through GrantAccess with expires_at = T is stored     *)
(* with that expiry, so that Check no longer allows on the basis of that   *)
(* tuple once T has passed.                                                *)
C19_GrantExpiryStored ==
    [][\A c \in AuthzCallers, r \in Resources, relation \in {RelationViewer, RelationEditor},
          subject \in AuthzSubjects, expiresAt \in 1..MaxTime :
           (/\ GrantAccess(c, r[1], r[2], relation, subject[1], subject[2], expiresAt)
            /\ last'.op = "GrantAccess" /\ last'.err = "" /\ perms' # perms)
           => \E t \in perms' \ perms :
                  /\ KeyOf(t) = <<c.tenant, r[1], r[2], relation, subject[1], subject[2]>>
                  /\ t.expires_at = expiresAt
                  /\ \A u \in perms' :
                         (KeyOf(u) = KeyOf(t) /\ expiresAt < now')
                             => DirectResultOf(u, PermissionRead)' =
                                    CheckResult(FALSE, "", "permission expired")]_vars

(* the step a reason stands for: where the deciding tuple sits and what    *)
(* kind of subject it names                                                *)
StepOfReason(reason) ==
    CASE reason = "direct permission" -> <<"direct", SubjectTypeUser>>
      [] reason = "direct permission via role" -> <<"direct", SubjectTypeRole>>
      [] reason = "direct permission via tenant" -> <<"direct", SubjectTypeTenant>>
      [] reason = "inherited from parent folder" -> <<"inherited", SubjectTypeUser>>
      [] reason = "inherited from parent folder via role" -> <<"inherited", SubjectTypeRole>>
      [] reason = "inherited from parent folder via tenant"
             -> <<"inherited", SubjectTypeTenant>>
      [] OTHER -> <<"", "">>

(* C20: the reason of an allow names the step that allowed: the user       *)
(* tuple, a role tuple or the tenant tuple on the resource ("direct",      *)
(* "direct via role", "direct via tenant"), or one of these on a folder    *)
(* above it ("inherited from parent folder", with "via role" or "via       *)
(* tenant"): a tuple of that kind, in that place, unexpired and granting   *)
(* the permission with the relation returned, exists.                      *)
C20_ReasonNamesStep ==
    \A c \in AuthzCallers, resourceType \in ResourceTypes, resourceID \in Ids,
       permission \in Permissions :
        \A r \in CheckPermission(c, resourceType, resourceID, permission) :
            r.Allowed =>
                \E t \in perms :
                    /\ t.tenant_id = c.tenant /\ NamesCaller(t, c)
                    /\ t.relation = r.Relation /\ Grants(t.relation, permission)
                    /\ Unexpired(t)
                    /\ t.subject_type = StepOfReason(r.Reason)[2]
                    /\ IF StepOfReason(r.Reason)[1] = "direct"
                           THEN t.resource_type = resourceType /\ t.resource_id = resourceID
                       ELSE /\ StepOfReason(r.Reason)[1] = "inherited"
                            /\ t.resource_type = ResourceTypeFolder
                            /\ t.resource_id \in FoldersAbove(resourceType, resourceID)

(* the same for allows that come from a folder above the resource *)
C20_InheritedReasons ==
    \A c \in AuthzCallers, resourceType \in ResourceTypes, resourceID \in Ids,
       permission \in Permissions :
        \A r \in CheckPermission(c, resourceType, resourceID, permission) :
            (r.Allowed /\ r.Reason # "direct permission") =>
                \E t \in perms :
                    /\ t.tenant_id = c.tenant /\ NamesCaller(t, c)
                    /\ t.relation = r.Relation /\ Grants(t.relation, permission)
                    /\ Unexpired(t)
                    /\ t.subject_type = StepOfReason(r.Reason)[2]
                    /\ StepOfReason(r.Reason)[1] = "inherited"
                    /\ t.resource_type = ResourceTypeFolder
                    /\ t.resource_id \in FoldersAbove(resourceType, resourceID)

----------------------------------------------------------------------------
(* What the claims about the vault path speak of. *)

(* C21: every secret row made by CreateSecret has the vault path           *)
(* "warden/" + tenant_id + "/" + id: the id in the KV path is the row's    *)
(* own id.                                                                 *)
C21_VaultPathConvention ==
    \A s \in secrets : s.vault_path = BuildPath(s.tenant_id, s.id)

(* what follows from the convention holds without it: the path starts      *)
(* with the row's tenant and no two rows share a path                      *)
C21_TenantPrefixedDistinct ==
    /\ \A s \in secrets : s.vault_path[1] = "warden" /\ s.vault_path[2] = s.tenant_id
    /\ \A s, t \in secrets : s.vault_path = t.vault_path => s = t

----------------------------------------------------------------------------
(* What the claims about the order of relations speak of. *)

(* the rank that breaks ties: OWNER > EDITOR > SHARER > VIEWER *)
RankOf(r) ==
    CASE r = RelationOwner -> 4 [] r = RelationEditor -> 3
      [] r = RelationSharer -> 2 [] r = RelationViewer -> 1

(* r is below or equal to s in the order by size of the permission set,    *)
(* ties broken by rank                                                     *)
BelowOrEqual(r, s) ==
    LET nr == Cardinality({p \in Permissions : Grants(r, p)})
        ns == Cardinality({p \in Permissions : Grants(s, p)})
    IN  nr < ns \/ (nr = ns /\ RankOf(r) <= RankOf(s))

(* C22: for every non-empty list, highest(relations) is the list's         *)
(* maximum under the order by permission-set size with ties broken by the  *)
(* rank OWNER > EDITOR > SHARER > VIEWER, whatever the order of the list,  *)
(* and atLeast(highest(L), r) holds for every r in L.                      *)
C22_HighestIsMaximum ==
    (call.op = "GetHighestRelation" /\ call.pc = "return" /\ Len(call.relations) > 0)
        => /\ \E i \in 1..Len(call.relations) : call.result = call.relations[i]
           /\ \A i \in 1..Len(call.relations) :
                  /\ BelowOrEqual(call.relations[i], call.result)
                  /\ IsRelationAtLeast(call.result, call.relations[i])

(* what does hold: the result is an element of the list and none of the    *)
(* list grants more permissions than it                                    *)
C22_MostPermissions ==
    (call.op = "GetHighestRelation" /\ call.pc = "return" /\ Len(call.relations) > 0)
        => /\ \E i \in 1..Len(call.relations) : call.result = call.relations[i]
           /\ \A i \in 1..Len(call.relations) :
                  CompareRelations(call.relations[i], call.result) <= 0

----------------------------------------------------------------------------
(* What the claims about the steps of a delete speak of. *)

(* the step that follows a step of the permanent delete *)
StepAfter(pc) ==
    CASE pc = "destroy" -> "versions"
      [] pc = "versions" -> "row"
      [] pc = "row" -> "tuples"
      [] pc = "tuples" -> "done"
      [] OTHER -> ""

(* C23: a DeleteSecret with permanent=true runs KV destroyAll, the delete  *)
(* of the version rows, the delete of the catalog row and the delete of    *)
(* the permission tuples in this order, and a step that fails is followed  *)
(* by the next one all the same: the handler returns only from the delete  *)
(* of the tuples.                                                          *)
C23_PermanentDeleteStepsIndependent ==
    [][\A w \in Workers :
           (/\ inflight[w].op = "DeleteSecretPermanent"
            /\ inflight[w].pc \in {"destroy", "versions", "row", "tuples"}
            /\ inflight'[w] # inflight[w])
           => inflight'[w].pc = StepAfter(inflight[w].pc)]_vars

(* the steps before the delete of the catalog row are followed by the next *)
(* step whether they fail or not                                           *)
C23_UpToRow ==
    [][\A w \in Workers :
           (/\ inflight[w].op = "DeleteSecretPermanent"
            /\ inflight[w].pc \in {"destroy", "versions", "tuples"}
            /\ inflight'[w] # inflight[w])
           => inflight'[w].pc = StepAfter(inflight[w].pc)]_vars

----------------------------------------------------------------------------
(* What the claims about the hierarchy walk speak of. *)

(* C24: for every parent-pointer graph, with cycles, self-parents and      *)
(* pointers to unknown ids, the hierarchy walk of Check returns; it        *)
(* evaluates no folder twice, and when it returns without an allow it has  *)
(* come to a folder already visited or to no parent (which is what the     *)
(* parent of an unknown id is).                                            *)
C24_WalkTerminates ==
    /\ [](call.op = "checkHierarchy" =>
            /\ \A i, j \in 1..Len(call.evaluated) :
                   call.evaluated[i] = call.evaluated[j] => i = j
            /\ (call.pc = "return" /\ ~call.result.Allowed) =>
                   \/ call.parentFolderID = NoId
                   \/ call.parentFolderID \in call.visited)
    /\ <>(call.op = "checkHierarchy" /\ call.pc = "return")

(* a walk through a cycle of two or more folders has returned at the       *)
(* folder it had visited                                                   *)
C24_Witness ==
    /\ call.op = "checkHierarchy" /\ call.pc = "return" /\ ~call.result.Allowed
    /\ call.parentFolderID # NoId /\ call.parentFolderID \in call.visited
    /\ Len(call.evaluated) >= 2

(* the walk returns what checkHierarchy returns *)
C24_SameAsCheckHierarchy ==
    (call.op = "checkHierarchy" /\ call.pc = "return")
        => call.result \in checkHierarchy(call.check, call.roleIDs)

----------------------------------------------------------------------------
(* What the claims about the token renewal speak of. *)

(* the task is running, Close has not been called, and it waits in its     *)
(* outer select on a watcher that has ended and whose DoneCh is empty      *)
Idle == client.running /\ ~client.cancelled
            /\ client.pc = "select" /\ client.watcher = "drained"

(* C25: a re-authentication that fails is followed by another attempt      *)
(* after the delay unless Close is called; after Close the task stops; and *)
(* the task never stays running while it neither watches a live token nor  *)
(* has a re-authentication ahead of it.                                    *)
C25_RenewalKeepsTrying ==
    /\ [](~Idle)
    /\ \A n \in 1..(MaxExpiries + 1) :
           (client.pc = "delay" /\ client.logins = n)
               ~> (client.logins > n \/ client.cancelled)
    /\ (client.cancelled ~> ~client.running)

(* what does hold: the task is started by the construction with            *)
(* credentials, and Close stops it                                         *)
C25_StartedAtConstruction ==
    [][(~client.constructed /\ client'.constructed /\ client'.logins > 0)
           => (client'.running /\ client'.watcher = "live")]_vars

C25_StopsAfterClose == client.cancelled ~> ~client.running

----------------------------------------------------------------------------
(* What the claims about paging speak of. *)

(* a uint32 that is at most the longest list plus one, as an integer *)
IsSmall(x) == x[1] = 0 /\ x[2] <= MaxList + 1

Min(a, b) == IF a <= b THEN a ELSE b

(* min(k * pageSize, n) for k >= 0 and pageSize >= 1, without wrapping:    *)
(* a factor above n makes the product of two positive factors exceed n     *)
ProductUpTo(k, pageSize, n) ==
    IF k = ToU32(0) THEN 0
    ELSE IF IsSmall(k) /\ IsSmall(pageSize) THEN Min(k[2] * pageSize[2], n)
    ELSE n

(* C26: for every page and page_size and every list of length n the window *)
(* is in bounds and the slice does not fail; a page or size of 0 is        *)
(* rejected or answered as the defaults are; for page >= 1 the response    *)
(* holds the elements from position (page-1)*page_size up to               *)
(* min(page*page_size, n).                                                 *)
C26_PagingWindow ==
    (call.op = "ListAccessibleResources" /\ call.pc = "return") =>
        LET page == PageOf(call.page)
            pageSize == PageSizeOf(call.pageSize)
            n == Len(call.resourceIDs)
        IN  /\ PageWindow(page, pageSize, n).start <= PageWindow(page, pageSize, n).end
            /\ call.result.err # "panic"
            /\ (page = ToU32(0) \/ pageSize = ToU32(0)) =>
                   \/ call.result.err # ""
                   \/ call.result = PageResponse(call.resourceIDs,
                                        IF page = ToU32(0) THEN Nil ELSE page,
                                        IF pageSize = ToU32(0) THEN Nil ELSE pageSize)
            /\ (page # ToU32(0) /\ pageSize # ToU32(0)) =>
                   /\ call.result.err = ""
                   /\ call.result.ResourceIds =
                          SubSeq(call.resourceIDs,
                                 ProductUpTo(Sub32(page, ToU32(1)), pageSize, n) + 1,
                                 ProductUpTo(page, pageSize, n))

(* what does hold: with page and page size from 1 on whose product stays   *)
(* below 2^32 the response is the page                                     *)
C26_WithoutWrapping ==
    (/\ call.op = "ListAccessibleResources" /\ call.pc = "return"
     /\ PageOf(call.page) # ToU32(0) /\ PageSizeOf(call.pageSize) # ToU32(0)
     /\ \/ IsSmall(PageOf(call.page)) /\ IsSmall(PageSizeOf(call.pageSize))
        \/ PageOf(call.page) = ToU32(1)
        \/ PageSizeOf(call.pageSize) = ToU32(1)
        \/ PageSizeOf(call.pageSize) = ToU32(100) /\ IsSmall(PageOf(call.page)))
        => /\ call.result.err = ""
           /\ call.result.ResourceIds =
                  SubSeq(call.resourceIDs,
                         ProductUpTo(Sub32(PageOf(call.page), ToU32(1)),
                                     PageSizeOf(call.pageSize), Len(call.resourceIDs)) + 1,
                         ProductUpTo(PageOf(call.page), PageSizeOf(call.pageSize),
                                     Len(call.resourceIDs)))

----------------------------------------------------------------------------
(* What the claims about listing speak of. *)

(* C30: every id that ListAccessibleResources(tenant, user, resource_type, *)
(* permission) returns is one for which Check allows the user that         *)
(* permission in the same state; ids held only through a relation that     *)
(* does not grant the permission, or through an expired tuple, are not     *)
(* returned.                                                               *)
C30_ListSoundForCheck ==
    \A c \in AuthzCallers, resourceType \in ResourceTypes, permission \in Permissions :
        \A id \in ListAccessibleResources(c.tenant, c.user, c.roles, resourceType, permission) :
            MayAllow(c, resourceType, id, permission)

(* what does hold: every id returned is the resource of a tuple of the     *)
(* tenant that names the user, one of the roles or the tenant              *)
C30_HeldThroughTuple ==
    \A c \in AuthzCallers, resourceType \in ResourceTypes, permission \in Permissions :
        \A id \in ListAccessibleResources(c.tenant, c.user, c.roles, resourceType, permission) :
            \E t \in perms :
                /\ t.tenant_id = c.tenant /\ NamesCaller(t, c)
                /\ t.resource_type = resourceType /\ t.resource_id = id

----------------------------------------------------------------------------
(* What the claims about soft deletion speak of. *)

(* the caller of the handler that has just returned *)
LastCaller == Caller(last.tenant, last.user, last.roles)

(* secret id has just come into status DELETED *)
BecomesDeleted(id) ==
    /\ \E s \in secrets : s.id = id /\ s.status # SecretStatusDeleted
    /\ \E s \in secrets' : s.id = id /\ s.status = SecretStatusDeleted

(* C27: a secret's status changes to DELETED only through an operation     *)
(* whose caller passed the DELETE check on that secret; a caller who holds *)
(* only WRITE on it cannot bring it into status DELETED.                   *)
C27_SoftDeleteNeedsDelete ==
    [][\A id \in Ids :
           BecomesDeleted(id) => MayAllow(LastCaller', ResourceTypeSecret, id, PermissionDelete)
      ]_vars

(* what does hold: the caller passed the WRITE or the DELETE check, and    *)
(* through DeleteSecret the DELETE check                                   *)
C27_NeedsWriteOrDelete ==
    [][\A id \in Ids :
           BecomesDeleted(id) =>
               /\ \/ MayAllow(LastCaller', ResourceTypeSecret, id, PermissionDelete)
                  \/ MayAllow(LastCaller', ResourceTypeSecret, id, PermissionWrite)
               /\ last'.op = "DeleteSecret" =>
                      MayAllow(LastCaller', ResourceTypeSecret, id, PermissionDelete)
      ]_vars

(* a DeleteSecret with permanent=false has just returned without error *)
SoftDeleted == last'.op = "DeleteSecret" /\ last'.err = "" /\ last' # last

(* C28: DeleteSecret with permanent=false sets the status to DELETED and   *)
(* leaves the KV object with its versions, the version rows and the        *)
(* secret's permission tuples as they were: whoever was allowed on the     *)
(* secret before is allowed after.                                         *)
C28_SoftDeleteOnlyStatus ==
    [][SoftDeleted =>
           /\ \E s \in secrets' : s.id = last'.id /\ s.status = SecretStatusDeleted
           /\ kv' = kv /\ versions' = versions
           /\ {t \in perms' : t.resource_type = ResourceTypeSecret /\ t.resource_id = last'.id}
                  = {t \in perms : t.resource_type = ResourceTypeSecret
                                       /\ t.resource_id = last'.id}
           /\ \A c \in StatusCallers, permission \in Permissions, id \in Ids :
                  (id = last'.id /\ MayAllow(c, ResourceTypeSecret, id, permission))
                      => MayAllow(c, ResourceTypeSecret, id, permission)'
      ]_vars

(* what does hold: the status, the KV object and the version rows *)
C28_StatusKVAndVersions ==
    [][SoftDeleted =>
           /\ \E s \in secrets' : s.id = last'.id /\ s.status = SecretStatusDeleted
           /\ secrets' = SecretDelete(secrets, last'.id, FALSE)
           /\ kv' = kv /\ versions' = versions
      ]_vars

----------------------------------------------------------------------------
(* What the claims about the folder tree speak of. *)

(* the max_depth values of requests: unlimited, one level, the default *)
TreeDepths == {0, 1, 10}

(* C29: every folder in a GetFolderTree response, with or without a root   *)
(* id in the request, is a folder on which Check allows the caller READ.   *)
C29_TreeOnlyReadable ==
    \A c \in AuthzCallers, rootID \in OptIds, maxDepth \in TreeDepths :
        \A resp \in GetFolderTree(c, rootID, maxDepth) :
            \A id \in resp.nodes : MayAllow(c, ResourceTypeFolder, id, PermissionRead)

(* what does hold: with a root id in the request *)
C29_UnderReadableRoot ==
    \A c \in AuthzCallers, rootID \in Ids, maxDepth \in TreeDepths :
        \A resp \in GetFolderTree(c, rootID, maxDepth) :
            \A id \in resp.nodes : MayAllow(c, ResourceTypeFolder, id, PermissionRead)

====
